---- MODULE Spec2Model ----
(***************************************************************************)
(* SEEs particle-detector firmware (hsfl/aeris-sees-software).             *)
(*                                                                         *)
(* Thirteen specifications over one set of variables:                     *)
(*   SpecRing    the CircularBuffer class driven through its public API    *)
(*               (begin, push, clear, extractWindow);                      *)
(*   Spec        the firmware update loop (SEEs_ADC on the Teensy and      *)
(*               SEEs_ADC_Native on Linux): serial commands, the sampling  *)
(*               gate, the hit detector, the ring buffer and SnapManager;  *)
(*   SpecDetect  the hysteresis + refractory block alone, fed a sequence   *)
(*               of samples from the constructed state;                    *)
(*   SpecTwin    two firmware instances given the same clock readings,     *)
(*               ADC counts and command lines, each with its own SD card;  *)
(*   SpecLate    the firmware loop long after power-up, where micros()     *)
(*               passes 2^31 and wraps at 2^32;                            *)
(*   SpecThreads the Linux build with its data-reader thread, the loop     *)
(*               taken one statement group at a time;                      *)
(*   SpecLive    the Teensy loop called without end, under fairness;       *)
(*   SpecLines   the firmware loop fed lines character by character;       *)
(*   SpecSparse  the sampling step of the Linux build, which records the   *)
(*               hits only;                                                *)
(*   SpecWrap    the detection block across the wrap of micros();          *)
(*   SpecSnap    SnapManager with a window short enough to be filled;      *)
(*   SpecInterface  the byte-stream parser of SEEs_Interface.cpp;          *)
(*   SpecSampleBuffer  the rolling buffer in RAM of SampleBuffer.hpp.      *)
(*                                                                         *)
(* Representation of numbers                                               *)
(*   uint32_t  a value x is held as the integer with the same 32-bit       *)
(*             pattern read as two's complement: x itself below 2^31,      *)
(*             x - 2^32 from 2^31 on.  U32Add/U32Sub wrap as the hardware  *)
(*             does, ULt/ULeq/UGeq compare as unsigned, and the cast       *)
(*             (int32_t)x is the held integer itself.                      *)
(*   volts     a float voltage is held in units of 10 microvolts.          *)
(*   seconds   a float number of seconds is held in milliseconds.          *)
(***************************************************************************)
EXTENDS Integers, Sequences, FiniteSets, TLC

\* ------------------------------------------------------------------------
\* Bounds of the model
\* ------------------------------------------------------------------------
MaxCapacity == 3        \* largest capacity a CircularBuffer is built with
MaxPushes == 5          \* pushes made on one CircularBuffer in SpecRing
MaxClears == 1          \* clear() calls made on it
MaxBegins == 2          \* begin() calls made on it
FwCapacity == 3         \* capacity of the firmware's buffer (30 s x 10 kHz in the build)
\* A run of Spec is a quiet run (no command line arrives), a run with one
\* command line, a run with two or a run with three; each kind has its own
\* budget of clock advances and passes of loop().
QuietTicks == 3
QuietUpdates == 4
OneCmdTicks == 3
OneCmdUpdates == 3
TwoCmdTicks == 1
TwoCmdUpdates == 3
ThreeCmdTicks == 1
ThreeCmdUpdates == 3
MaxFed == 5             \* samples fed to the detector in SpecDetect
TwinTicks == 1          \* clock advances of a run of SpecTwin
TwinUpdates == 3        \* passes of loop() of a run of SpecTwin
TwinCommands == 2       \* lines the host sends in a twin run
LateTicks == 2          \* clock advances of a run of SpecLate
LateUpdates == 4        \* passes of loop() of a run of SpecLate
LateCommands == 1       \* lines the host sends in a run of SpecLate
ThreadTicks == 1        \* clock advances of a run of SpecThreads
ThreadUpdates == 4      \* passes of loop() of a run of SpecThreads
ThreadCommands == 3     \* lines the host sends in a run of SpecThreads
LiveHorizon == 100      \* microseconds after begin() that SpecLive lets pass
LiveCommands == 1       \* lines the host sends in a run of SpecLive
LineTicks == 1          \* clock advances of a run of SpecLines
LineUpdates == 3        \* passes of loop() of a run of SpecLines
LineCommands == 2       \* lines the host sends in a run of SpecLines
SparseCapacity == 2     \* slots of the ring buffer of SpecSparse
SparseSamples == 5      \* calls of sampleAndStream in a run of SpecSparse
WrapFed == 5            \* samples fed in a run of SpecWrap
SnapCapacity == 22  \* slots of the ring buffer of SpecSnap
SnapPushes == 24  \* samples pushed in SpecSnap
SnapCaptures == 2  \* calls of captureSnap in SpecSnap
MaxPackets == 2  \* packets put on the wire in SpecInterface
TotalSamples == 3  \* slots of the SampleBuffer array (100,000 in the source)
RamRecords == 5  \* calls of SampleBuffer::record in SpecSampleBuffer
RamClears == 1  \* calls of SampleBuffer::clear in SpecSampleBuffer

\* ------------------------------------------------------------------------
\* uint32_t arithmetic
\* ------------------------------------------------------------------------
Hi16(s) == s \div 65536
Lo16(s) == s % 65536
Wrap16(h) == ((h + 32768) % 65536) - 32768

U32Add(a, b) ==
    LET lo == Lo16(a) + Lo16(b)
        hi == Hi16(a) + Hi16(b) + (lo \div 65536)
    IN  Wrap16(hi) * 65536 + (lo % 65536)

U32Sub(a, b) ==
    LET lo == Lo16(a) - Lo16(b)
        hi == Hi16(a) - Hi16(b) + (lo \div 65536)
    IN  Wrap16(hi) * 65536 + (lo % 65536)

\* a < b, a <= b, a >= b on uint32_t
ULt(a, b) == IF (a >= 0) = (b >= 0) THEN a < b ELSE a >= 0
ULeq(a, b) == a = b \/ ULt(a, b)
UGeq(a, b) == ULeq(b, a)

\* (int32_t)x
I32(x) == x

\* ------------------------------------------------------------------------
\* State
\* ------------------------------------------------------------------------
VARIABLES
    cb,         \* the CircularBuffer object
    out,        \* the caller's outBuffer after the last extractWindow
    query,      \* arguments of the last extractWindow call
    pushed,     \* history: the samples pushed since the last clear/begin
    calls,      \* history: how many push, clear and begin calls were made
    target,     \* the build: "teensy" (SEEs_ADC) or "native" (SEEs_ADC_Native)
    pc,         \* "constructed", "running" or "halted"
    clock,      \* what micros() returns now
    rx,         \* the complete line waiting in the serial input, or NoLine
    adc,        \* the SEEs_ADC / SEEs_ADC_Native object
    sm,         \* the SnapManager object
    ev,         \* history: the last call of sampleAndStream
    snapLog,    \* history: the last snap command
    trace,      \* history: summary of the samples evaluated so far
    steps,      \* history: how many clock advances and command lines so far
    cmd,        \* history: the line the last pass of loop() read, or NoLine
    files,      \* the snap files written to the SD card, in order
    fed,        \* history: the samples fed to the detector in SpecDetect
    twin,       \* the second firmware instance of SpecTwin
    cell,       \* g_currentVoltage of the Linux build, in units of 10 microvolts
    iface,      \* the statics of SEEs_Interface.cpp and the caller's frame
    sbuf        \* the SampleBuffer object and what it printed on Serial

ringVars == <<cb, out, query, pushed, calls>>
fwVars == <<target, pc, clock, rx, adc, sm, ev, snapLog, trace, steps, cmd,
            files, fed, twin, cell,
                   iface, sbuf>>
vars == <<cb, out, query, pushed, calls,
          target, pc, clock, rx, adc, sm, ev, snapLog, trace, steps, cmd,
          files, fed, twin, cell,
                   iface, sbuf>>

\* A slot of a freshly allocated array holds no sample yet.
Uninit == [timestamp |-> -1, cum_counts |-> 0, slot |-> "uninitialized"]

\* struct DetectorSample
DetectorSample(time_ms, voltage, hit, layers, cum_counts, timestamp) ==
    [time_ms |-> time_ms, voltage |-> voltage, hit |-> hit,
     layers |-> layers, cum_counts |-> cum_counts, timestamp |-> timestamp]

\* ------------------------------------------------------------------------
\* class CircularBuffer
\* ------------------------------------------------------------------------
\* CircularBuffer::CircularBuffer
CircularBuffer(capacitySeconds, sampleRateHz) ==
    [allocated |-> FALSE,
     buffer |-> << >>,
     capacity |-> capacitySeconds * sampleRateHz,
     head |-> 0,
     size |-> 0]

\* clear that resets the size and leaves the head where it was
clear_SizeOnly(b) == [b EXCEPT !.size = 0]

\* CircularBuffer::clear
clear(b) == [b EXCEPT !.head = 0, !.size = 0]

\* begin that allocates the array and does not call clear()
begin_NoClear(b, allocOk) ==
    IF ~allocOk
    THEN [b EXCEPT !.allocated = FALSE, !.buffer = << >>]
    ELSE [b EXCEPT !.allocated = TRUE,
                   !.buffer = [i \in 0..(b.capacity - 1) |-> Uninit]]

\* CircularBuffer::begin; allocOk is the outcome of new (std::nothrow)
begin(b, allocOk) ==
    IF ~allocOk
    THEN [b EXCEPT !.allocated = FALSE, !.buffer = << >>]
    ELSE clear([b EXCEPT !.allocated = TRUE,
                         !.buffer = [i \in 0..(b.capacity - 1) |-> Uninit]])

\* push that forgets to saturate the size at the capacity
push_Unsaturated(b, sample) ==
    IF ~b.allocated
    THEN b
    ELSE [b EXCEPT !.buffer[b.head] = sample,
                   !.head = (b.head + 1) % b.capacity,
                   !.size = b.size + 1]

\* push without the test of _buffer: head and size move on a store that has
\* no array
push_Unguarded(b, sample) ==
    IF ~b.allocated
    THEN [b EXCEPT !.head = (b.head + 1) % b.capacity,
                   !.size = IF b.size < b.capacity THEN b.size + 1 ELSE b.size]
    ELSE [b EXCEPT !.buffer[b.head] = sample,
                   !.head = (b.head + 1) % b.capacity,
                   !.size = IF b.size < b.capacity THEN b.size + 1 ELSE b.size]

\* CircularBuffer::push
push(b, sample) ==
    IF ~b.allocated
    THEN b
    ELSE [b EXCEPT !.buffer[b.head] = sample,
                   !.head = (b.head + 1) % b.capacity,
                   !.size = IF b.size < b.capacity THEN b.size + 1 ELSE b.size]

\* physicalIndex that forgets the circular case
physicalIndex_Linear(b, logicalIndex) == logicalIndex

\* physicalIndex that counts back from the newest sample
physicalIndex_NewestFirst(b, logicalIndex) ==
    IF b.size < b.capacity
    THEN b.size - 1 - logicalIndex
    ELSE (b.head + b.size - 1 - logicalIndex) % b.capacity

\* CircularBuffer::physicalIndex
physicalIndex(b, logicalIndex) ==
    IF b.size < b.capacity
    THEN logicalIndex
    ELSE (b.head + logicalIndex) % b.capacity

\* (uint32_t)(windowSeconds * 1000000.0f), windowSeconds held in milliseconds
WindowUs(windowSeconds) == windowSeconds * 1000

\* a loop that goes on after maxSamples matches
RECURSIVE extractLoop_Unbounded(_, _, _, _, _, _)
extractLoop_Unbounded(b, startTimeUs, endTimeUs, maxSamples, i, acc) ==
    IF i < b.size
    THEN LET sample == b.buffer[physicalIndex(b, i)]
         IN  extractLoop_Unbounded(b, startTimeUs, endTimeUs, maxSamples, i + 1,
                 IF UGeq(sample.timestamp, startTimeUs)
                    /\ ULeq(sample.timestamp, endTimeUs)
                 THEN Append(acc, sample)
                 ELSE acc)
    ELSE acc

\* a loop over every slot of the array instead of the _size logical indices
RECURSIVE extractLoop_AllSlots(_, _, _, _, _, _)
extractLoop_AllSlots(b, startTimeUs, endTimeUs, maxSamples, i, acc) ==
    IF i < b.capacity /\ Len(acc) < maxSamples
    THEN LET sample == b.buffer[i]
         IN  extractLoop_AllSlots(b, startTimeUs, endTimeUs, maxSamples, i + 1,
                 IF UGeq(sample.timestamp, startTimeUs)
                    /\ ULeq(sample.timestamp, endTimeUs)
                 THEN Append(acc, sample)
                 ELSE acc)
    ELSE acc

\* the for loop of CircularBuffer::extractWindow, from index i on
RECURSIVE extractLoop(_, _, _, _, _, _)
extractLoop(b, startTimeUs, endTimeUs, maxSamples, i, acc) ==
    IF i < b.size /\ Len(acc) < maxSamples
    THEN LET sample == b.buffer[physicalIndex(b, i)]
         IN  extractLoop(b, startTimeUs, endTimeUs, maxSamples, i + 1,
                 IF UGeq(sample.timestamp, startTimeUs)
                    /\ ULeq(sample.timestamp, endTimeUs)
                 THEN Append(acc, sample)
                 ELSE acc)
    ELSE acc

\* CircularBuffer::extractWindow: the first `extracted` cells of outBuffer
extractWindow(b, centerTimeUs, windowSeconds, outOk, maxSamples) ==
    IF ~b.allocated \/ ~outOk \/ b.size = 0
    THEN << >>
    ELSE LET windowUs == WindowUs(windowSeconds)
             startTimeUs == U32Sub(centerTimeUs, windowUs)
             endTimeUs == U32Add(centerTimeUs, windowUs)
         IN  extractLoop(b, startTimeUs, endTimeUs, maxSamples, 0, << >>)

\* CircularBuffer::size, capacity, isFull
size(b) == b.size
capacity(b) == b.capacity
isFull(b) == b.size >= b.capacity

\* The retained samples in logical order 0..size-1.
Retained(b) == [i \in 1..b.size |-> b.buffer[physicalIndex(b, i - 1)]]

\* ------------------------------------------------------------------------
\* class SnapManager
\* ------------------------------------------------------------------------
\* SnapManager::SnapManager
SnapManager(windowSeconds) ==
    [windowSeconds |-> windowSeconds, outputDir |-> "snaps/", snapCount |-> 0,
     sdAvailable |-> FALSE]

\* SnapManager::begin (the directory is created on the card; only the flag
\* is state of the object)
snapBegin(s, sdAvailable) == [s EXCEPT !.sdAvailable = sdAvailable]

\* (size_t)(_windowSeconds * 2.0f * 10000.0f), windowSeconds held in ms
MaxSamples(windowSeconds) == (windowSeconds * 2 * 10000) \div 1000

\* the decimal digits of n >= 0, most significant first
RECURSIVE Digits(_)
Digits(n) == IF n < 10 THEN <<n>> ELSE Append(Digits(n \div 10), n % 10)

\* the decimal digits of the uint32_t x (printf's %lu)
DigitsU32(x) ==
    LET hi == Hi16(x) % 65536
        low == (hi % 10) * 65536 + Lo16(x)
        tens == (hi \div 10) * 65536 + (low \div 10)
    IN  IF tens = 0 THEN <<low % 10>> ELSE Append(Digits(tens), low % 10)

\* zero padding to a minimum field width (printf's %0<width>lu)
RECURSIVE Pad(_, _)
Pad(digits, width) ==
    IF Len(digits) >= width THEN digits ELSE Pad(<<0>> \o digits, width)

\* SnapManager::generateFilename: "<outputDir>snap_NNNNN_TTTTTTTTTT.csv"
generateFilename(s, triggerTimeUs) ==
    [dir |-> s.outputDir,
     seq |-> Pad(DigitsU32(s.snapCount), 5),
     trigger |-> Pad(DigitsU32(triggerTimeUs), 10)]

\* writeSnapFile that prints the size of the extraction array in the header
writeSnapFile_HeaderOfArray(s, filename, samples, count, triggerTimeUs) ==
    [name |-> filename,
     captured |-> triggerTimeUs,
     windowSeconds |-> s.windowSeconds,
     samplesLine |-> MaxSamples(s.windowSeconds),
     rows |-> [i \in 1..count |-> samples[i]]]

\* SnapManager::writeSnapFile once SD.open has succeeded: the file it leaves
\* on the card.  `captured`, `windowSeconds` and `samplesLine` are the
\* numbers of the "# ..." header lines, `rows` the samples of the CSV rows,
\* one per turn of the loop (each row prints the six fields of its sample).
writeSnapFile(s, filename, samples, count, triggerTimeUs) ==
    [name |-> filename,
     captured |-> triggerTimeUs,
     windowSeconds |-> s.windowSeconds,
     samplesLine |-> count,
     rows |-> [i \in 1..count |-> samples[i]]]

NoFile == [dir |-> "<none>"]

\* captureSnap that saves a snap without counting it
captureSnap_NoIncrement(s, b, triggerTimeUs, allocOk, fileOk) ==
    LET failed(err) == [ok |-> FALSE, sm |-> s, cb |-> b, queried |-> FALSE,
                        samples |-> << >>, error |-> err, file |-> NoFile]
    IN  IF ~s.sdAvailable THEN failed("sd")
        ELSE IF size(b) = 0 THEN failed("empty")
        ELSE IF ~allocOk THEN failed("alloc")
        ELSE LET samples == extractWindow(b, triggerTimeUs, s.windowSeconds,
                                          TRUE, MaxSamples(s.windowSeconds))
             IN  IF Len(samples) = 0
                 THEN [failed("nosamples") EXCEPT !.queried = TRUE]
                 ELSE [ok |-> fileOk,
                       sm |-> s,
                       cb |-> b,
                       queried |-> TRUE,
                       samples |-> samples,
                       error |-> IF fileOk THEN "none" ELSE "open",
                       file |-> IF fileOk THEN generateFilename(s, triggerTimeUs)
                                ELSE NoFile]

\* captureSnap that empties the ring buffer once the snap is saved
captureSnap_Consumes(s, b, triggerTimeUs, allocOk, fileOk) ==
    LET failed(err) == [ok |-> FALSE, sm |-> s, cb |-> b, queried |-> FALSE,
                        samples |-> << >>, error |-> err, file |-> NoFile]
    IN  IF ~s.sdAvailable THEN failed("sd")
        ELSE IF size(b) = 0 THEN failed("empty")
        ELSE IF ~allocOk THEN failed("alloc")
        ELSE LET samples == extractWindow(b, triggerTimeUs, s.windowSeconds,
                                          TRUE, MaxSamples(s.windowSeconds))
             IN  IF Len(samples) = 0
                 THEN [failed("nosamples") EXCEPT !.queried = TRUE]
                 ELSE [ok |-> fileOk,
                       sm |-> IF fileOk THEN [s EXCEPT !.snapCount = U32Add(@, 1)]
                                        ELSE s,
                       cb |-> IF fileOk THEN clear(b) ELSE b,
                       queried |-> TRUE,
                       samples |-> samples,
                       error |-> IF fileOk THEN "none" ELSE "open",
                       file |-> IF fileOk THEN generateFilename(s, triggerTimeUs)
                                ELSE NoFile]

\* SnapManager::captureSnap.  allocOk: the extraction array could be
\* allocated; fileOk: SD.open in writeSnapFile succeeded.  `error` names
\* the message printed on the way out ("sd": SD card not available, "empty":
\* Buffer is empty, "alloc": Failed to allocate extraction buffer,
\* "nosamples": No samples in time window, "open": Failed to open file);
\* `file` is the file written to the card, if any.
captureSnap(s, b, triggerTimeUs, allocOk, fileOk) ==
    LET failed(err) == [ok |-> FALSE, sm |-> s, cb |-> b, queried |-> FALSE,
                        samples |-> << >>, error |-> err, file |-> NoFile]
    IN  IF ~s.sdAvailable THEN failed("sd")
        ELSE IF size(b) = 0 THEN failed("empty")
        ELSE IF ~allocOk THEN failed("alloc")
        ELSE LET samples == extractWindow(b, triggerTimeUs, s.windowSeconds,
                                          TRUE, MaxSamples(s.windowSeconds))
             IN  IF Len(samples) = 0
                 THEN [failed("nosamples") EXCEPT !.queried = TRUE]
                 ELSE [ok |-> fileOk,
                       sm |-> IF fileOk THEN [s EXCEPT !.snapCount = U32Add(@, 1)]
                                        ELSE s,
                       cb |-> b,
                       queried |-> TRUE,
                       samples |-> samples,
                       error |-> IF fileOk THEN "none" ELSE "open",
                       file |-> IF fileOk THEN generateFilename(s, triggerTimeUs)
                                ELSE NoFile]

\* ------------------------------------------------------------------------
\* class SEEs_ADC (Teensy) and class SEEs_ADC_Native (Linux simulation)
\* ------------------------------------------------------------------------
SAMPLE_US == 100
REFRACT_US == 300
LOWER_ENTER_V == 30000
LOWER_EXIT_V == 30000
UPPER_LIMIT_V == 80000
ADC_VREF == 330000
ADC_MAX == 4095
WINDOW_SECONDS == 2500
SNAP_DELAY_MS == 2500
BEGIN_DELAY_MS == 500
BLINK_DELAY_MS == 10

\* SEEs_ADC::SEEs_ADC and SEEs_ADC_Native::SEEs_ADC_Native
SEEs_ADC ==
    [isCollecting |-> FALSE, sdAvailable |-> FALSE, armed |-> TRUE,
     t0_us |-> 0, next_sample_us |-> 0, last_hit_us |-> 0, cum_counts |-> 0]

\* float v = raw * _countsPerVolt, in units of 10 microvolts.  No count of
\* the 12-bit range falls within one unit of a threshold, so the float
\* comparisons against 0.30f and 0.800f agree with the integer ones.
Volts(raw) == (raw * ADC_VREF) \div ADC_MAX

\* the body of the innermost if of the block: hit = 1, ++_cum_counts,
\* _last_hit_us = now_us, _armed = false
Hit(a, now_us) ==
    [hit |-> 1,
     adc |-> [a EXCEPT !.cum_counts = U32Add(@, 1),
                       !.last_hit_us = now_us,
                       !.armed = FALSE]]

\* detect with an exclusive refractory test
detect_StrictRefractory(a, v, now_us) ==
    IF a.armed
    THEN IF v >= LOWER_ENTER_V /\ v <= UPPER_LIMIT_V
            /\ ~ULeq(U32Sub(now_us, a.last_hit_us), REFRACT_US)
         THEN Hit(a, now_us)
         ELSE [hit |-> 0, adc |-> a]
    ELSE IF v < LOWER_EXIT_V
         THEN [hit |-> 0, adc |-> [a EXCEPT !.armed = TRUE]]
         ELSE [hit |-> 0, adc |-> a]

\* detect without the armed/disarmed hysteresis
detect_NoHysteresis(a, v, now_us) ==
    IF v >= LOWER_ENTER_V /\ v <= UPPER_LIMIT_V
       /\ UGeq(U32Sub(now_us, a.last_hit_us), REFRACT_US)
    THEN Hit(a, now_us)
    ELSE IF v < LOWER_EXIT_V
         THEN [hit |-> 0, adc |-> [a EXCEPT !.armed = TRUE]]
         ELSE [hit |-> 0, adc |-> a]

\* detect that does not stamp the hit time
detect_StaleLastHit(a, v, now_us) ==
    IF a.armed
    THEN IF v >= LOWER_ENTER_V /\ v <= UPPER_LIMIT_V
            /\ UGeq(U32Sub(now_us, a.last_hit_us), REFRACT_US)
         THEN [hit |-> 1,
               adc |-> [a EXCEPT !.cum_counts = U32Add(@, 1), !.armed = FALSE]]
         ELSE [hit |-> 0, adc |-> a]
    ELSE IF v < LOWER_EXIT_V
         THEN [hit |-> 0, adc |-> [a EXCEPT !.armed = TRUE]]
         ELSE [hit |-> 0, adc |-> a]

\* detect that disarms on an in-window sample refused by the refractory test
detect_DisarmOnRefuse(a, v, now_us) ==
    IF a.armed
    THEN IF v >= LOWER_ENTER_V /\ v <= UPPER_LIMIT_V
         THEN IF UGeq(U32Sub(now_us, a.last_hit_us), REFRACT_US)
              THEN Hit(a, now_us)
              ELSE [hit |-> 0, adc |-> [a EXCEPT !.armed = FALSE]]
         ELSE [hit |-> 0, adc |-> a]
    ELSE IF v < LOWER_EXIT_V
         THEN [hit |-> 0, adc |-> [a EXCEPT !.armed = TRUE]]
         ELSE [hit |-> 0, adc |-> a]

\* detect that counts every in-window sample seen while armed
detect_CountRefused(a, v, now_us) ==
    IF a.armed
    THEN IF v >= LOWER_ENTER_V /\ v <= UPPER_LIMIT_V
         THEN IF UGeq(U32Sub(now_us, a.last_hit_us), REFRACT_US)
              THEN Hit(a, now_us)
              ELSE [hit |-> 0, adc |-> [a EXCEPT !.cum_counts = U32Add(@, 1)]]
         ELSE [hit |-> 0, adc |-> a]
    ELSE IF v < LOWER_EXIT_V
         THEN [hit |-> 0, adc |-> [a EXCEPT !.armed = TRUE]]
         ELSE [hit |-> 0, adc |-> a]

\* detect that takes a hit only at a counter value above that of the last
detect_OrderedStamps(a, v, now_us) ==
    IF a.armed
    THEN IF v >= LOWER_ENTER_V /\ v <= UPPER_LIMIT_V
            /\ ULt(a.last_hit_us, now_us)
            /\ UGeq(U32Sub(now_us, a.last_hit_us), REFRACT_US)
         THEN Hit(a, now_us)
         ELSE [hit |-> 0, adc |-> a]
    ELSE IF v < LOWER_EXIT_V
         THEN [hit |-> 0, adc |-> [a EXCEPT !.armed = TRUE]]
         ELSE [hit |-> 0, adc |-> a]

\* The hysteresis + refractory block of sampleAndStream.
detect(a, v, now_us) ==
    IF a.armed
    THEN IF v >= LOWER_ENTER_V /\ v <= UPPER_LIMIT_V
            /\ UGeq(U32Sub(now_us, a.last_hit_us), REFRACT_US)
         THEN Hit(a, now_us)
         ELSE [hit |-> 0, adc |-> a]
    ELSE IF v < LOWER_EXIT_V
         THEN [hit |-> 0, adc |-> [a EXCEPT !.armed = TRUE]]
         ELSE [hit |-> 0, adc |-> a]

\* a timing check that lets every call take a sample
due_Always(a, now_us) == TRUE

\* The timing check of sampleAndStream.
due(a, now_us) == ~(I32(U32Sub(now_us, a.next_sample_us)) < 0)

\* struct HitRecord of the hits-only buffer
HitRecord(timestamp, layers) == [timestamp |-> timestamp, layers |-> layers]

\* CircularBuffer::recordHit of the hits-only buffer the native build calls
recordHit(b, timestamp, layers) == push(b, HitRecord(timestamp, layers))

\* an accumulator that is set from the time of the call
advance_FromNow(a, now_us) ==
    [a EXCEPT !.next_sample_us = U32Add(now_us, SAMPLE_US)]

\* _next_sample_us += SAMPLE_US
advance(a, now_us) == [a EXCEPT !.next_sample_us = U32Add(@, SAMPLE_US)]

\* a record that carries the count as it was before the evaluation
record_CountBefore(a, d, v, now_us) ==
    DetectorSample(U32Sub(now_us, a.t0_us), v, d.hit, 1, a.cum_counts, now_us)

\* a record stamped with the time since _t0_us in place of micros()
record_RelativeStamp(a, d, v, now_us) ==
    DetectorSample(U32Sub(now_us, a.t0_us), v, d.hit, 1, d.adc.cum_counts,
                   U32Sub(now_us, a.t0_us))

\* the DetectorSample built by SEEs_ADC::sampleAndStream from the detector
\* state a before the evaluation and its outcome d; time_ms is held in
\* microseconds
record(a, d, v, now_us) ==
    DetectorSample(U32Sub(now_us, a.t0_us), v, d.hit, 1, d.adc.cum_counts, now_us)

\* a live stream that needs the SD card
streams_NeedsCard(tgt, a) == (tgt = "native" \/ a.isCollecting) /\ a.sdAvailable

\* whether sampleAndStream prints the telemetry line: SEEs_ADC only while
\* collecting, SEEs_ADC_Native always
streams(tgt, a) == tgt = "native" \/ a.isCollecting

NoOutput == [printed |-> FALSE]

\* the line "<time_ms>,<voltage_V>,<hit>,<cum_counts>" printed on Serial
StreamLine(t_ms, v, hit, cum_counts) ==
    [printed |-> TRUE, time_ms |-> t_ms, voltage |-> v, hit |-> hit,
     cum_counts |-> cum_counts]

\* a Linux build that records every sample it takes, hit or not
sampleAndStream_RecordsEvery(tgt, a, b, now_us, raw) ==
    IF ~due(a, now_us)
    THEN [accepted |-> FALSE, adc |-> a, cb |-> b, hit |-> 0, v |-> 0,
          line |-> NoOutput]
    ELSE LET a1 == advance(a, now_us)
             v == Volts(raw)
             d == detect(a1, v, now_us)
             sample == record(a1, d, v, now_us)
         IN  [accepted |-> TRUE,
              adc |-> d.adc,
              cb |-> IF tgt = "teensy" THEN push(b, sample)
                     ELSE recordHit(b, now_us, 1),
              hit |-> d.hit,
              v |-> v,
              line |-> IF streams(tgt, d.adc)
                       THEN StreamLine(sample.time_ms, v, d.hit, d.adc.cum_counts)
                       ELSE NoOutput]

\* SEEs_ADC::sampleAndStream and SEEs_ADC_Native::sampleAndStream, called
\* when micros() returns now_us and analogRead returns raw.
sampleAndStream(tgt, a, b, now_us, raw) ==
    IF ~due(a, now_us)
    THEN [accepted |-> FALSE, adc |-> a, cb |-> b, hit |-> 0, v |-> 0,
          line |-> NoOutput]
    ELSE LET a1 == advance(a, now_us)
             v == Volts(raw)
             d == detect(a1, v, now_us)
             sample == record(a1, d, v, now_us)
         IN  [accepted |-> TRUE,
              adc |-> d.adc,
              cb |-> IF tgt = "teensy" THEN push(b, sample)
                     ELSE IF d.hit = 1 THEN recordHit(b, now_us, 1)
                     ELSE b,
              hit |-> d.hit,
              v |-> v,
              line |-> IF streams(tgt, d.adc)
                       THEN StreamLine(sample.time_ms, v, d.hit, d.adc.cum_counts)
                       ELSE NoOutput]

NoSnap == [commanded |-> FALSE]

\* an `on` branch that also empties the ring buffer
collectionOn_ClearsRing(a, b, now_us) ==
    [adc |-> [a EXCEPT !.isCollecting = TRUE, !.t0_us = now_us,
                       !.cum_counts = 0, !.armed = TRUE],
     cb |-> clear(b)]

\* the `on` branch of SEEs_ADC::processCommand when not yet collecting (the
\* rolling buffer file it opens on the card is not part of the objects)
collectionOn(a, b, now_us) ==
    [adc |-> [a EXCEPT !.isCollecting = TRUE, !.t0_us = now_us,
                       !.cum_counts = 0, !.armed = TRUE],
     cb |-> b]

\* SEEs_ADC::processCommand and SEEs_ADC_Native::processCommand, entered
\* when micros() returns now_us, from the comparison of cmdLower on.  `clock`
\* of the result is the time at which the call returns, `notice` the first
\* line the call prints on Serial.
processCommand(tgt, a, s, b, cmdLower, now_us, allocOk, fileOk) ==
    LET same == [adc |-> a, sm |-> s, cb |-> b, clock |-> now_us,
                 snap |-> NoSnap, reset |-> FALSE, notice |-> "none"]
    IN  IF tgt = "teensy" /\ cmdLower = "on"
        THEN IF ~a.isCollecting
             THEN LET on == collectionOn(a, b, now_us)
                  IN  [same EXCEPT !.adc = on.adc, !.cb = on.cb, !.reset = TRUE,
                                   !.notice = "Collection ON"]
             ELSE same
        ELSE IF tgt = "teensy" /\ cmdLower = "off"
        THEN IF a.isCollecting
             THEN [same EXCEPT !.adc = [a EXCEPT !.isCollecting = FALSE],
                               !.notice = "Collection OFF"]
             ELSE same
        ELSE IF cmdLower = "snap"
        THEN LET snapTime == now_us
                 callTime == IF tgt = "native"
                             THEN U32Add(now_us, SNAP_DELAY_MS * 1000)
                             ELSE now_us
                 r == captureSnap(s, b, snapTime, allocOk, fileOk)
             IN  [same EXCEPT !.notice = "SNAP command received",
                              !.sm = r.sm,
                              !.cb = r.cb,
                              !.clock = callTime,
                              !.snap = [commanded |-> TRUE,
                                        trigger |-> snapTime,
                                        queried |-> r.queried,
                                        queryAt |-> callTime,
                                        nextSampleAtQuery |-> a.next_sample_us,
                                        samples |-> r.samples,
                                        ok |-> r.ok,
                                        error |-> r.error,
                                        file |-> r.file,
                                        sdAvailable |-> s.sdAvailable,
                                        sizeAtCall |-> size(b),
                                        countBefore |-> s.snapCount,
                                        countAfter |-> r.sm.snapCount]]
        ELSE IF cmdLower # ""
        THEN [same EXCEPT !.notice = "Unknown command"]
        ELSE same

\* ------------------------------------------------------------------------
\* History of the evaluated samples
\* ------------------------------------------------------------------------
NoEval == [accepted |-> FALSE]

NoTrace ==
    [firstNext |-> 0,        \* _next_sample_us as begin() set it
     accepted |-> 0,         \* calls of sampleAndStream that took a sample, ever
     emitted |-> 0,          \* samples that emitted hit = 1, ever
     lastEmitUs |-> 0,       \* time of the last emitted hit (0 before any)
     gap |-> 0,              \* time between the last two emitted hits
     rearmed |-> FALSE,      \* since the last hit a sample fell below lowerExit
     refused |-> FALSE,      \* ... and a later in-window sample gave no hit
     refusedBefore |-> FALSE,\* `refused` as it was when the last hit came
     \* the fields below are counted from the detector's start: construction,
     \* or the `on` command that resets it
     evals |-> 0,            \* samples evaluated
     hits |-> 0,             \* samples that emitted hit = 1
     shapeOK |-> TRUE,       \* no sample above upperLimit
     prevHigh |-> FALSE,     \* the previous sample was inside the window
     rising |-> 0,           \* rising crossings at least refractoryUs after
                             \* the previous emitted hit
     pulseCounted |-> FALSE, \* the current pulse already has such a sample
     pulses |-> 0]           \* pulses holding a sample at least refractoryUs
                             \* after the previous emitted hit

\* the `on` command has reset the detector
Restart(t) ==
    [t EXCEPT !.evals = 0, !.hits = 0, !.shapeOK = TRUE, !.prevHigh = FALSE,
              !.rising = 0, !.pulseCounted = FALSE, !.pulses = 0]

\* sampleAndStream evaluated a sample of voltage v at now_us and emitted hit
Observe(t, v, hit, now_us) ==
    LET inWin == v >= LOWER_ENTER_V /\ v <= UPPER_LIMIT_V
        low == v < LOWER_EXIT_V
        elapsed == UGeq(U32Sub(now_us, t.lastEmitUs), REFRACT_US)
        isHit == hit = 1
    IN  [firstNext |-> t.firstNext,
         accepted |-> t.accepted + 1,
         emitted |-> t.emitted + hit,
         lastEmitUs |-> IF isHit THEN now_us ELSE t.lastEmitUs,
         gap |-> IF isHit /\ t.emitted >= 1 THEN U32Sub(now_us, t.lastEmitUs)
                 ELSE t.gap,
         rearmed |-> ~isHit /\ (t.rearmed \/ (t.emitted >= 1 /\ low)),
         refused |-> ~isHit /\ (t.refused \/ (t.rearmed /\ inWin)),
         refusedBefore |-> IF isHit THEN t.refused ELSE t.refusedBefore,
         evals |-> t.evals + 1,
         hits |-> t.hits + hit,
         shapeOK |-> t.shapeOK /\ (inWin \/ low),
         prevHigh |-> inWin,
         rising |-> t.rising + (IF inWin /\ ~t.prevHigh /\ elapsed THEN 1 ELSE 0),
         pulseCounted |-> inWin /\ (t.pulseCounted \/ elapsed),
         pulses |-> t.pulses + (IF inWin /\ ~t.pulseCounted /\ elapsed THEN 1 ELSE 0)]

\* ------------------------------------------------------------------------
\* SpecRing: a CircularBuffer used through its public interface
\* ------------------------------------------------------------------------
NoQuery == [called |-> FALSE]
NoLine == "<none>"
NoTwin == [present |-> FALSE]
NoInterface == [present |-> FALSE]
NoSampleBuffer == [present |-> FALSE]

\* timestamps a caller pushes, and the queries it makes
RingTimes == {0, 10, 20, 30, 40, 50}
RingCenters == {20, 50}
RingWindows == {0, 1000}
RingMaxOut == {0, 2, 10}

InitRing ==
    /\ \E n \in 1..MaxCapacity : cb = CircularBuffer(n, 1)
    /\ out = << >>
    /\ query = NoQuery
    /\ pushed = << >>
    /\ calls = [push |-> 0, clear |-> 0, begin |-> 0]
    /\ target = "teensy"
    /\ pc = "constructed"
    /\ clock = 0
    /\ rx = NoLine
    /\ adc = SEEs_ADC
    /\ sm = SnapManager(WINDOW_SECONDS)
    /\ ev = NoEval
    /\ snapLog = NoSnap
    /\ trace = NoTrace
    /\ steps = [ticks |-> 0, updates |-> 0, commands |-> 0]
    /\ cmd = NoLine
    /\ files = << >>
    /\ fed = << >>
    /\ twin = NoTwin
    /\ cell = 0
    /\ iface = NoInterface
    /\ sbuf = NoSampleBuffer

RingBegin ==
    /\ calls.begin < MaxBegins
    /\ calls' = [calls EXCEPT !.begin = @ + 1]
    /\ \E allocOk \in BOOLEAN : cb' = begin(cb, allocOk)
    /\ pushed' = << >>
    /\ out' = << >>
    /\ query' = NoQuery
    /\ UNCHANGED fwVars

\* successive timestamps never go back (single writer, monotonic clock)
RingPush ==
    /\ calls.push < MaxPushes
    /\ calls' = [calls EXCEPT !.push = @ + 1]
    /\ \E ts \in RingTimes :
         /\ pushed # << >> => I32(U32Sub(ts, pushed[Len(pushed)].timestamp)) >= 0
         /\ LET sample == DetectorSample(0, 0, 0, 1, Len(pushed) + 1, ts)
            IN  /\ cb' = push(cb, sample)
                /\ pushed' = IF cb.allocated THEN Append(pushed, sample) ELSE pushed
    /\ out' = << >>
    /\ query' = NoQuery
    /\ UNCHANGED fwVars

RingClear ==
    /\ calls.clear < MaxClears
    /\ calls' = [calls EXCEPT !.clear = @ + 1]
    /\ cb' = clear(cb)
    /\ pushed' = << >>
    /\ out' = << >>
    /\ query' = NoQuery
    /\ UNCHANGED fwVars

RingExtract ==
    /\ \E c \in RingCenters, w \in RingWindows, m \in RingMaxOut :
         /\ out' = extractWindow(cb, c, w, TRUE, m)
         /\ query' = [called |-> TRUE, centerTimeUs |-> c, windowSeconds |-> w,
                      maxSamples |-> m]
    /\ UNCHANGED <<cb, pushed, calls>>
    /\ UNCHANGED fwVars

NextRing == RingBegin \/ RingPush \/ RingClear \/ RingExtract

SpecRing == InitRing /\ [][NextRing]_vars

\* ------------------------------------------------------------------------
\* Spec: the firmware, from power-up on
\* ------------------------------------------------------------------------
\* time that passes between two readings of micros()
Dt == {50, 100}
\* what analogRead returns: 0.2998 V, 0.3006 V, 0.7994 V, 0.8002 V
RawCounts == {372, 373, 992, 993}
\* lines the host sends, already trimmed and lower-cased
Lines == {"on", "off", "snap", "bogus", ""}

\* what is left of the budget of the run
Budgets ==
    {[ticks |-> QuietTicks, updates |-> QuietUpdates, commands |-> 0],
     [ticks |-> OneCmdTicks, updates |-> OneCmdUpdates, commands |-> 1],
     [ticks |-> TwoCmdTicks, updates |-> TwoCmdUpdates, commands |-> 2],
     [ticks |-> ThreeCmdTicks, updates |-> ThreeCmdUpdates, commands |-> 3]}

Init ==
    /\ target \in {"teensy", "native"}
    /\ pc = "constructed"
    /\ clock = 0
    /\ rx = NoLine
    /\ adc = SEEs_ADC
    /\ sm = SnapManager(WINDOW_SECONDS)
    /\ cb = CircularBuffer(FwCapacity, 1)
    /\ out = << >>
    /\ query = NoQuery
    /\ pushed = << >>
    /\ calls = [push |-> 0, clear |-> 0, begin |-> 0]
    /\ ev = NoEval
    /\ snapLog = NoSnap
    /\ trace = NoTrace
    /\ steps \in Budgets
    /\ cmd = NoLine
    /\ files = << >>
    /\ fed = << >>
    /\ twin = NoTwin
    /\ cell = 0
    /\ iface = NoInterface
    /\ sbuf = NoSampleBuffer

\* begin that carries on after a failed allocation
firmwareBegin_RunsOn(tgt, a, s, b, now_us, sdOk, allocOk) ==
    LET t == IF tgt = "teensy" THEN U32Add(now_us, BEGIN_DELAY_MS * 1000)
             ELSE now_us
    IN  [pc |-> "running",
         cb |-> begin(b, allocOk),
         sm |-> snapBegin(s, sdOk),
         adc |-> [a EXCEPT !.sdAvailable = sdOk,
                           !.next_sample_us = t,
                           !.t0_us = t],
         clock |-> t]

\* SEEs_ADC::begin and SEEs_ADC_Native::begin, entered when micros() returns
\* now_us.  A failed allocation ends in the blink loop (Teensy) or in
\* exit(1) (Linux).
firmwareBegin(tgt, a, s, b, now_us, sdOk, allocOk) ==
    LET t == IF tgt = "teensy" THEN U32Add(now_us, BEGIN_DELAY_MS * 1000)
             ELSE now_us
    IN  IF allocOk
        THEN [pc |-> "running",
              cb |-> begin(b, allocOk),
              sm |-> snapBegin(s, sdOk),
              adc |-> [a EXCEPT !.sdAvailable = sdOk,
                                !.next_sample_us = t,
                                !.t0_us = t],
              clock |-> t]
        ELSE [pc |-> "halted",
              cb |-> begin(b, allocOk),
              sm |-> s,
              adc |-> [a EXCEPT !.sdAvailable = sdOk],
              clock |-> t]

\* an update() that gives up sampling once a snap has failed
update_StopsAfterFailedSnap(tgt, a, s, b, line, now_us, allocOk, fileOk, raw) ==
    LET c == IF line # NoLine
             THEN processCommand(tgt, a, s, b, line, now_us, allocOk, fileOk)
             ELSE [adc |-> a, sm |-> s, cb |-> b, clock |-> now_us,
                   snap |-> NoSnap, reset |-> FALSE]
        failed == c.snap.commanded /\ ~c.snap.ok
        a2 == IF failed
              THEN [c.adc EXCEPT !.next_sample_us = U32Add(c.clock, 2147483647)]
              ELSE c.adc
        r == sampleAndStream(tgt, a2, c.cb, c.clock, raw)
    IN  [adc |-> r.adc, sm |-> c.sm, cb |-> r.cb, clock |-> c.clock,
         snap |-> c.snap, reset |-> c.reset,
         ev |-> IF r.accepted
                THEN [accepted |-> TRUE, now_us |-> c.clock, v |-> r.v,
                      hit |-> r.hit, armed |-> c.adc.armed,
                      last_hit_us |-> c.adc.last_hit_us,
                      cum_counts |-> c.adc.cum_counts,
                      next_sample_us |-> c.adc.next_sample_us,
                      line |-> r.line]
                ELSE NoEval]

\* SEEs_ADC::update and SEEs_ADC_Native::update, entered when micros()
\* returns now_us with `line` waiting on Serial (NoLine: none).
update(tgt, a, s, b, line, now_us, allocOk, fileOk, raw) ==
    LET c == IF line # NoLine
             THEN processCommand(tgt, a, s, b, line, now_us, allocOk, fileOk)
             ELSE [adc |-> a, sm |-> s, cb |-> b, clock |-> now_us,
                   snap |-> NoSnap, reset |-> FALSE]
        r == sampleAndStream(tgt, c.adc, c.cb, c.clock, raw)
    IN  [adc |-> r.adc, sm |-> c.sm, cb |-> r.cb, clock |-> c.clock,
         snap |-> c.snap, reset |-> c.reset,
         ev |-> IF r.accepted
                THEN [accepted |-> TRUE, now_us |-> c.clock, v |-> r.v,
                      hit |-> r.hit, armed |-> c.adc.armed,
                      last_hit_us |-> c.adc.last_hit_us,
                      cum_counts |-> c.adc.cum_counts,
                      next_sample_us |-> c.adc.next_sample_us,
                      line |-> r.line]
                ELSE NoEval]

\* the outcomes the allocation and the file opening of a snap can have
\* (neither is attempted for another line)
SnapOutcomes == IF rx = "snap" THEN BOOLEAN ELSE {TRUE}

\* analogRead is called only when a sample is due: NoRead stands for the
\* pass that does not call it
NoRead == 0
Reads == RawCounts \cup {NoRead}

\* begin()
Setup ==
    /\ pc = "constructed"
    /\ \E sdOk \in BOOLEAN, allocOk \in BOOLEAN :
         LET r == firmwareBegin(target, adc, sm, cb, clock, sdOk, allocOk)
         IN  /\ pc' = r.pc
             /\ cb' = r.cb
             /\ sm' = r.sm
             /\ adc' = r.adc
             /\ clock' = r.clock
             /\ trace' = IF r.pc = "running"
                         THEN [trace EXCEPT !.firstNext = r.adc.next_sample_us]
                         ELSE trace
    /\ UNCHANGED <<out, query, pushed, calls, target, rx, ev, snapLog, steps,
                   cmd, files, fed, twin, cell,
                   iface, sbuf>>

\* time passes
Tick ==
    /\ pc = "running"
    /\ steps.ticks > 0
    /\ \E dt \in Dt : clock' = U32Add(clock, dt)
    /\ steps' = [steps EXCEPT !.ticks = @ - 1]
    /\ UNCHANGED <<cb, out, query, pushed, calls, target, pc, rx, adc, sm, ev,
                   snapLog, trace, cmd, files, fed, twin, cell,
                   iface, sbuf>>

\* the host completes a line on the serial input (whether or not anything
\* is left to read it)
SerialLine ==
    /\ pc \in {"running", "halted"}
    /\ rx = NoLine
    /\ steps.commands > 0
    /\ \E line \in Lines : rx' = line
    /\ steps' = [steps EXCEPT !.commands = @ - 1]
    /\ UNCHANGED <<cb, out, query, pushed, calls, target, pc, clock, adc, sm, ev,
                   snapLog, trace, cmd, files, fed, twin, cell,
                   iface, sbuf>>

\* what one pass of loop() leaves in the objects and in the history
PassEffects(u) ==
    /\ adc' = u.adc
    /\ cb' = u.cb
    /\ sm' = u.sm
    /\ clock' = u.clock
    /\ snapLog' = IF u.snap.commanded THEN u.snap ELSE snapLog
    /\ out' = IF u.snap.commanded THEN u.snap.samples ELSE out
    /\ files' = IF u.snap.commanded /\ u.snap.file # NoFile
                THEN Append(files, u.snap.file) ELSE files
    /\ ev' = u.ev
    /\ trace' = LET t == IF u.reset THEN Restart(trace) ELSE trace
                IN  IF u.ev.accepted
                    THEN Observe(t, u.ev.v, u.ev.hit, u.ev.now_us)
                    ELSE t
    /\ rx' = NoLine
    /\ cmd' = rx

\* the effect of one pass of loop() on the first instance
Pass(u) ==
    /\ PassEffects(u)
    /\ steps' = [steps EXCEPT !.updates = @ - 1]

\* one pass of loop(): update()
Update ==
    /\ pc = "running"
    /\ steps.updates > 0
    /\ \E allocOk \in SnapOutcomes, fileOk \in SnapOutcomes, raw \in Reads :
         LET u == update(target, adc, sm, cb, rx, clock, allocOk, fileOk, raw)
         IN  /\ u.ev.accepted <=> raw # NoRead
             /\ Pass(u)
    /\ UNCHANGED <<query, pushed, calls, target, pc, fed, twin, cell,
                   iface, sbuf>>

\* one turn of the blink loop that SEEs_ADC::begin never leaves after a
\* failed allocation: digitalWrite, delay(10)
Halted ==
    /\ pc = "halted"
    /\ target = "teensy"
    /\ steps.ticks > 0
    /\ clock' = U32Add(clock, BLINK_DELAY_MS * 1000)
    /\ steps' = [steps EXCEPT !.ticks = @ - 1]
    /\ UNCHANGED <<cb, out, query, pushed, calls, target, pc, rx, adc, sm, ev,
                   snapLog, trace, cmd, files, fed, twin, cell,
                   iface, sbuf>>

Next == Setup \/ Tick \/ SerialLine \/ Update \/ Halted

Spec == Init /\ [][Next]_vars

\* ------------------------------------------------------------------------
\* SpecDetect: the detection block fed a sequence of samples, starting from
\* the state the constructor leaves
\* ------------------------------------------------------------------------
\* ADC counts fed: what analogRead of the Linux build returns for 0.1 V and
\* 0.5 V (main_native.cpp, analogRead), and a count above the upper limit
DetectCounts == {124, 620, 993}
\* times between two samples
DetectDt == {100, 49700}

InitDetect ==
    /\ cb = CircularBuffer(FwCapacity, 1)
    /\ out = << >>
    /\ query = NoQuery
    /\ pushed = << >>
    /\ calls = [push |-> 0, clear |-> 0, begin |-> 0]
    /\ target = "native"
    /\ pc = "constructed"
    /\ clock = 0
    /\ rx = NoLine
    /\ adc = SEEs_ADC
    /\ sm = SnapManager(WINDOW_SECONDS)
    /\ ev = NoEval
    /\ snapLog = NoSnap
    /\ trace = NoTrace
    /\ steps = [ticks |-> 0, updates |-> 0, commands |-> 0]
    /\ cmd = NoLine
    /\ files = << >>
    /\ fed = << >>
    /\ twin = NoTwin
    /\ cell = 0
    /\ iface = NoInterface
    /\ sbuf = NoSampleBuffer

\* one evaluation of the detection block; the first sample comes at t = 0
Evaluate ==
    /\ Len(fed) < MaxFed
    /\ \E dt \in DetectDt, raw \in DetectCounts :
         LET now_us == IF fed = << >> THEN 0 ELSE U32Add(clock, dt)
             d == detect(adc, Volts(raw), now_us)
         IN  /\ adc' = d.adc
             /\ clock' = now_us
             /\ fed' = Append(fed, [t |-> now_us, raw |-> raw, hit |-> d.hit])
    /\ UNCHANGED <<cb, out, query, pushed, calls, target, pc, rx, sm, ev,
                   snapLog, trace, steps, cmd, files, twin, cell,
                   iface, sbuf>>

NextDetect == Evaluate

SpecDetect == InitDetect /\ [][NextDetect]_vars

\* ------------------------------------------------------------------------
\* SpecTwin: two instances of the firmware that read the same clock, the
\* same ADC counts and the same command lines.  Each has its own SD card:
\* found or not by begin(), and opening the snap file or not.  The second
\* instance is held in `twin`.
\* ------------------------------------------------------------------------
InitTwin ==
    /\ target \in {"teensy", "native"}
    /\ pc = "constructed"
    /\ clock = 0
    /\ rx = NoLine
    /\ adc = SEEs_ADC
    /\ sm = SnapManager(WINDOW_SECONDS)
    /\ cb = CircularBuffer(FwCapacity, 1)
    /\ out = << >>
    /\ query = NoQuery
    /\ pushed = << >>
    /\ calls = [push |-> 0, clear |-> 0, begin |-> 0]
    /\ ev = NoEval
    /\ snapLog = NoSnap
    /\ trace = NoTrace
    /\ steps = [ticks |-> TwinTicks, updates |-> TwinUpdates,
                commands |-> TwinCommands]
    /\ cmd = NoLine
    /\ files = << >>
    /\ fed = << >>
    /\ twin = [present |-> TRUE, pc |-> "constructed", clock |-> 0,
               adc |-> SEEs_ADC, sm |-> SnapManager(WINDOW_SECONDS),
               cb |-> CircularBuffer(FwCapacity, 1), ev |-> NoEval,
               snap |-> NoSnap, files |-> << >>]
    /\ cell = 0
    /\ iface = NoInterface
    /\ sbuf = NoSampleBuffer

\* begin() in both instances; the allocation of the ring buffer, which has
\* nothing to do with the card, succeeds in both
TwinSetup ==
    /\ pc = "constructed"
    /\ \E sdOk \in BOOLEAN, sdOk2 \in BOOLEAN :
         LET r == firmwareBegin(target, adc, sm, cb, clock, sdOk, TRUE)
             r2 == firmwareBegin(target, twin.adc, twin.sm, twin.cb,
                                 twin.clock, sdOk2, TRUE)
         IN  /\ pc' = r.pc
             /\ cb' = r.cb
             /\ sm' = r.sm
             /\ adc' = r.adc
             /\ clock' = r.clock
             /\ trace' = [trace EXCEPT !.firstNext = r.adc.next_sample_us]
             /\ twin' = [twin EXCEPT !.pc = r2.pc, !.cb = r2.cb, !.sm = r2.sm,
                                     !.adc = r2.adc, !.clock = r2.clock]
    /\ UNCHANGED <<out, query, pushed, calls, target, rx, ev, snapLog, steps,
                   cmd, files, fed, cell,
                   iface, sbuf>>

\* the same time passes for both
TwinTick ==
    /\ pc = "running"
    /\ steps.ticks > 0
    /\ \E dt \in Dt :
         /\ clock' = U32Add(clock, dt)
         /\ twin' = [twin EXCEPT !.clock = U32Add(twin.clock, dt)]
    /\ steps' = [steps EXCEPT !.ticks = @ - 1]
    /\ UNCHANGED <<cb, out, query, pushed, calls, target, pc, rx, adc, sm, ev,
                   snapLog, trace, cmd, files, fed, cell,
                   iface, sbuf>>

\* the effect of one pass of loop() on the second instance
TwinPass(u) ==
    twin' = [twin EXCEPT
               !.adc = u.adc, !.sm = u.sm, !.cb = u.cb,
               !.clock = u.clock, !.ev = u.ev,
               !.snap = IF u.snap.commanded THEN u.snap ELSE @,
               !.files = IF u.snap.commanded /\ u.snap.file # NoFile
                         THEN Append(@, u.snap.file) ELSE @]

\* one pass of loop() in both instances: the same line, the same ADC count,
\* the same outcome of the allocation of the extraction buffer
TwinUpdate ==
    /\ pc = "running"
    /\ steps.updates > 0
    /\ \E allocOk \in SnapOutcomes, fileOk \in SnapOutcomes,
          fileOk2 \in SnapOutcomes, raw \in Reads :
         LET u == update(target, adc, sm, cb, rx, clock, allocOk, fileOk, raw)
             u2 == update(target, twin.adc, twin.sm, twin.cb, rx, twin.clock,
                          allocOk, fileOk2, raw)
         IN  /\ u.ev.accepted <=> raw # NoRead
             /\ Pass(u)
             /\ TwinPass(u2)
    /\ UNCHANGED <<query, pushed, calls, target, pc, fed, cell,
                   iface, sbuf>>

NextTwin == TwinSetup \/ TwinTick \/ SerialLine \/ TwinUpdate

SpecTwin == InitTwin /\ [][NextTwin]_vars

\* ------------------------------------------------------------------------
\* SpecLate: the firmware long after power-up, when micros() is about to
\* pass 2^31 (35.8 min) or to wrap at 2^32 (71.6 min).  The detector has
\* been quiet and every sample was taken on time: the Teensy ring holds the
\* last samples, 100 us apart, the hits-only ring of the Linux build is
\* still empty.
\* ------------------------------------------------------------------------
\* micros() at the start of the run: 2^31 - 200 and 2^32 - 200
LateClocks == {2147483647 - 199, -200}

\* the sample SEEs_ADC::sampleAndStream pushed at ts when 0.2998 V was read
\* and nothing had been counted
QuietSample(a, ts) == DetectorSample(U32Sub(ts, a.t0_us), Volts(372), 0, 1, 0, ts)

InitLate ==
    /\ target \in {"teensy", "native"}
    /\ pc = "running"
    /\ clock \in LateClocks
    /\ rx = NoLine
    /\ \E sdOk \in BOOLEAN :
         /\ adc = [SEEs_ADC EXCEPT
                     !.sdAvailable = sdOk,
                     !.t0_us = IF target = "teensy" THEN BEGIN_DELAY_MS * 1000 ELSE 0,
                     !.next_sample_us = clock]
         /\ sm = snapBegin(SnapManager(WINDOW_SECONDS), sdOk)
    /\ cb = LET b == begin(CircularBuffer(FwCapacity, 1), TRUE)
            IN  IF target = "teensy"
                THEN push(push(push(b, QuietSample(adc, U32Sub(clock, 3 * SAMPLE_US))),
                               QuietSample(adc, U32Sub(clock, 2 * SAMPLE_US))),
                          QuietSample(adc, U32Sub(clock, SAMPLE_US)))
                ELSE b
    /\ out = << >>
    /\ query = NoQuery
    /\ pushed = << >>
    /\ calls = [push |-> 0, clear |-> 0, begin |-> 0]
    /\ ev = NoEval
    /\ snapLog = NoSnap
    /\ trace = [NoTrace EXCEPT !.firstNext = clock]
    /\ steps = [ticks |-> LateTicks, updates |-> LateUpdates,
                commands |-> LateCommands]
    /\ cmd = NoLine
    /\ files = << >>
    /\ fed = << >>
    /\ twin = NoTwin
    /\ cell = 0
    /\ iface = NoInterface
    /\ sbuf = NoSampleBuffer

NextLate == Tick \/ SerialLine \/ Update

SpecLate == InitLate /\ [][NextLate]_vars

\* ------------------------------------------------------------------------
\* SpecThreads: the two threads of the Linux build, step by step.  The
\* firmware loop of main() is at one of four places (pc): "running" between
\* two passes, "command" with a line read, "extract" inside the for loop of
\* extractWindow, "sample" before sampleAndStream.  dataReaderThread stores
\* into g_currentVoltage (cell) at any moment.
\* ------------------------------------------------------------------------
\* voltages the data port delivers: 0.1 V, 0.5 V, 0.9 V
Voltages == {10000, 50000, 90000}

\* analogRead of main_native.cpp: (int)((voltage / 3.3f) * 4095.0f), clamped
analogRead(voltage) ==
    LET counts == (voltage * ADC_MAX) \div ADC_VREF
    IN  IF counts < 0 THEN 0 ELSE IF counts > ADC_MAX THEN ADC_MAX ELSE counts

\* a reader thread that also records what it parsed in the ring buffer
readerStore_Records(b, voltage, now_us) ==
    [cell |-> voltage, cb |-> recordHit(b, now_us, 1)]

\* the body of the sscanf branch of dataReaderThread: g_currentVoltage = voltage
readerStore(b, voltage, now_us) == [cell |-> voltage, cb |-> b]

\* one iteration of the for loop of CircularBuffer::extractWindow at index i
extractStep(b, startTimeUs, endTimeUs, i, acc) ==
    LET sample == b.buffer[physicalIndex(b, i)]
    IN  IF UGeq(sample.timestamp, startTimeUs) /\ ULeq(sample.timestamp, endTimeUs)
        THEN Append(acc, sample)
        ELSE acc

InitThreads ==
    /\ target = "native"
    /\ pc = "running"
    /\ clock = 0
    /\ rx = NoLine
    /\ \E sdOk \in BOOLEAN :
         LET r == firmwareBegin("native", SEEs_ADC, SnapManager(WINDOW_SECONDS),
                                CircularBuffer(FwCapacity, 1), 0, sdOk, TRUE)
         IN  adc = r.adc /\ sm = r.sm /\ cb = r.cb
    /\ out = << >>
    /\ query = NoQuery
    /\ pushed = << >>
    /\ calls = [push |-> 0, clear |-> 0, begin |-> 0]
    /\ ev = NoEval
    /\ snapLog = NoSnap
    /\ trace = NoTrace
    /\ steps = [ticks |-> ThreadTicks, updates |-> ThreadUpdates,
                commands |-> ThreadCommands]
    /\ cmd = NoLine
    /\ files = << >>
    /\ fed = << >>
    /\ twin = NoTwin
    /\ cell = 0
    /\ iface = NoInterface
    /\ sbuf = NoSampleBuffer

\* dataReaderThread parses a line of the data port
ReaderStore ==
    /\ \E voltage \in Voltages :
         /\ voltage # cell
         /\ LET r == readerStore(cb, voltage, clock)
            IN  cell' = r.cell /\ cb' = r.cb
    /\ UNCHANGED <<out, query, pushed, calls, target, pc, clock, rx, adc, sm,
                   ev, snapLog, trace, steps, cmd, files, fed, twin,
                   iface, sbuf>>

\* time passes, wherever the loop is
ThreadTick ==
    /\ steps.ticks > 0
    /\ \E dt \in Dt : clock' = U32Add(clock, dt)
    /\ steps' = [steps EXCEPT !.ticks = @ - 1]
    /\ UNCHANGED <<cb, out, query, pushed, calls, target, pc, rx, adc, sm, ev,
                   snapLog, trace, cmd, files, fed, twin, cell,
                   iface, sbuf>>

\* update(): if (Serial.available()) cmd = Serial.readStringUntil
LoopPoll ==
    /\ pc = "running"
    /\ steps.updates > 0
    /\ pc' = IF rx # NoLine THEN "command" ELSE "sample"
    /\ cmd' = rx
    /\ rx' = NoLine
    /\ UNCHANGED <<cb, out, query, pushed, calls, target, clock, adc, sm, ev,
                   snapLog, trace, steps, files, fed, twin, cell,
                   iface, sbuf>>

\* the outcome of a snap that ended with `error` after reading `samples`
SnapEnded(trigger, error, samples, file, queried, countAfter) ==
    [commanded |-> TRUE, trigger |-> trigger, queried |-> queried,
     queryAt |-> U32Add(trigger, SNAP_DELAY_MS * 1000),
     nextSampleAtQuery |-> adc.next_sample_us,
     samples |-> samples, ok |-> error = "none", error |-> error, file |-> file,
     sdAvailable |-> sm.sdAvailable, sizeAtCall |-> size(cb),
     countBefore |-> sm.snapCount, countAfter |-> countAfter]

\* processCommand up to the for loop of extractWindow: for snap the delay
\* and the tests of captureSnap and extractWindow that come before the loop
LoopCommand ==
    /\ pc = "command"
    /\ IF cmd = "snap"
       THEN /\ clock' = U32Add(clock, SNAP_DELAY_MS * 1000)
            /\ \E allocOk \in BOOLEAN :
                 LET early == IF ~sm.sdAvailable THEN "sd"
                              ELSE IF size(cb) = 0 THEN "empty"
                              ELSE IF ~allocOk THEN "alloc"
                              ELSE "none"
                 IN  IF early = "none"
                     THEN /\ pc' = "extract"
                          /\ query' = [called |-> TRUE, centerTimeUs |-> clock,
                                       windowSeconds |-> sm.windowSeconds,
                                       maxSamples |-> MaxSamples(sm.windowSeconds),
                                       i |-> 0]
                          /\ out' = << >>
                          /\ UNCHANGED snapLog
                     ELSE /\ pc' = "sample"
                          /\ query' = NoQuery
                          /\ out' = << >>
                          /\ snapLog' = SnapEnded(clock, early, << >>, NoFile, FALSE, sm.snapCount)
       ELSE /\ pc' = "sample"
            /\ UNCHANGED <<clock, query, out, snapLog>>
    /\ UNCHANGED <<cb, pushed, calls, target, rx, adc, sm, ev, trace, steps,
                   cmd, files, fed, twin, cell,
                   iface, sbuf>>

\* one turn of the for loop of extractWindow or, once its condition fails,
\* the rest of captureSnap
LoopExtract ==
    /\ pc = "extract"
    /\ IF query.i < cb.size /\ Len(out) < query.maxSamples
       THEN /\ out' = extractStep(cb,
                          U32Sub(query.centerTimeUs, WindowUs(query.windowSeconds)),
                          U32Add(query.centerTimeUs, WindowUs(query.windowSeconds)),
                          query.i, out)
            /\ query' = [query EXCEPT !.i = @ + 1]
            /\ UNCHANGED <<pc, sm, snapLog, files>>
       ELSE /\ pc' = "sample"
            /\ UNCHANGED <<out, query>>
            /\ IF Len(out) = 0
               THEN /\ snapLog' = SnapEnded(query.centerTimeUs, "nosamples", out, NoFile, TRUE,
                                           sm.snapCount)
                    /\ UNCHANGED <<sm, files>>
               ELSE \E fileOk \in BOOLEAN :
                      IF fileOk
                      THEN LET file == generateFilename(sm, query.centerTimeUs)
                           IN  /\ sm' = [sm EXCEPT !.snapCount = U32Add(@, 1)]
                               /\ files' = Append(files, file)
                               /\ snapLog' = SnapEnded(query.centerTimeUs, "none", out, file,
                                                     TRUE, U32Add(sm.snapCount, 1))
                      ELSE /\ snapLog' = SnapEnded(query.centerTimeUs, "open", out, NoFile,
                                                     TRUE, sm.snapCount)
                           /\ UNCHANGED <<sm, files>>
    /\ UNCHANGED <<cb, pushed, calls, target, clock, rx, adc, ev, trace, steps,
                   cmd, fed, twin, cell,
                   iface, sbuf>>

\* sampleAndStream, with what analogRead makes of g_currentVoltage
LoopSample ==
    /\ pc = "sample"
    /\ LET r == sampleAndStream(target, adc, cb, clock, analogRead(cell))
       IN  /\ adc' = r.adc
           /\ cb' = r.cb
           /\ ev' = IF r.accepted
                    THEN [accepted |-> TRUE, now_us |-> clock, v |-> r.v,
                          hit |-> r.hit, armed |-> adc.armed,
                          last_hit_us |-> adc.last_hit_us,
                          cum_counts |-> adc.cum_counts,
                          next_sample_us |-> adc.next_sample_us,
                          line |-> r.line]
                    ELSE NoEval
    /\ pc' = "running"
    /\ steps' = [steps EXCEPT !.updates = @ - 1]
    /\ UNCHANGED <<out, query, pushed, calls, target, clock, rx, sm, snapLog,
                   trace, cmd, files, fed, twin, cell,
                   iface, sbuf>>

NextThreads ==
    ReaderStore \/ ThreadTick \/ SerialLine \/ LoopPoll \/ LoopCommand
        \/ LoopExtract \/ LoopSample

SpecThreads == InitThreads /\ [][NextThreads]_vars

\* ------------------------------------------------------------------------
\* SpecLive: the Teensy firmware with no limit on the number of passes.
\* loop() is called again whenever it returns (the Arduino core calls it
\* without end) and micros() goes on: both are weakly fair.  Time is
\* observed for LiveHorizon microseconds from the start of the run.
\* ------------------------------------------------------------------------
\* micros() at the start of the run: as begin() returns, and 3 s after
\* power-up
LiveClocks == {BEGIN_DELAY_MS * 1000, 3000000}

InitLive ==
    /\ target = "teensy"
    /\ pc = "running"
    /\ clock \in LiveClocks
    /\ rx = NoLine
    /\ \E sdOk \in BOOLEAN :
         /\ adc = [SEEs_ADC EXCEPT !.sdAvailable = sdOk,
                                   !.t0_us = BEGIN_DELAY_MS * 1000,
                                   !.next_sample_us = clock]
         /\ sm = snapBegin(SnapManager(WINDOW_SECONDS), sdOk)
    /\ cb = LET b == begin(CircularBuffer(FwCapacity, 1), TRUE)
            IN  IF clock = BEGIN_DELAY_MS * 1000
                THEN b
                ELSE push(push(push(b, QuietSample(adc, U32Sub(clock, 3 * SAMPLE_US))),
                               QuietSample(adc, U32Sub(clock, 2 * SAMPLE_US))),
                          QuietSample(adc, U32Sub(clock, SAMPLE_US)))
    /\ out = << >>
    /\ query = NoQuery
    /\ pushed = << >>
    /\ calls = [push |-> 0, clear |-> 0, begin |-> 0]
    /\ ev = NoEval
    /\ snapLog = NoSnap
    /\ trace = [NoTrace EXCEPT !.firstNext = clock]
    /\ steps = [ticks |-> 0, updates |-> 0, commands |-> LiveCommands]
    /\ cmd = NoLine
    /\ files = << >>
    /\ fed = << >>
    /\ twin = NoTwin
    /\ cell = 0
    /\ iface = NoInterface
    /\ sbuf = NoSampleBuffer

\* time passes, up to the end of the observed time
LiveTick ==
    /\ pc \in {"running", "inLoop"}
    /\ I32(U32Sub(clock, trace.firstNext)) < LiveHorizon
    /\ \E dt \in Dt : clock' = U32Add(clock, dt)
    /\ UNCHANGED <<cb, out, query, pushed, calls, target, pc, rx, adc, sm, ev,
                   snapLog, trace, steps, cmd, files, fed, twin, cell,
                   iface, sbuf>>

\* the core calls loop() again
LoopCalled ==
    /\ pc = "running"
    /\ pc' = "inLoop"
    /\ UNCHANGED <<cb, out, query, pushed, calls, target, clock, rx, adc, sm,
                   ev, snapLog, trace, steps, cmd, files, fed, twin, cell,
                   iface, sbuf>>

\* the pass of loop() that was called: update(), and the return
LiveUpdate ==
    /\ pc = "inLoop"
    /\ \E allocOk \in SnapOutcomes, fileOk \in SnapOutcomes, raw \in Reads :
         LET u == update(target, adc, sm, cb, rx, clock, allocOk, fileOk, raw)
         IN  /\ u.ev.accepted <=> raw # NoRead
             /\ PassEffects(u)
    /\ pc' = "running"
    /\ UNCHANGED <<query, pushed, calls, target, steps, fed, twin, cell,
                   iface, sbuf>>

\* loop() returns.  Every statement of update() terminates, so a pass that
\* was called can always return, and its return is what LiveUpdate is
LoopReturns == pc = "inLoop" /\ pc' = "running"

NextLive == LiveTick \/ SerialLine \/ LoopCalled \/ LiveUpdate

SpecLive ==
    /\ InitLive /\ [][NextLive]_vars
    /\ WF_vars(LiveTick) /\ WF_vars(LoopCalled) /\ WF_pc(LoopReturns)

\* ------------------------------------------------------------------------
\* SpecLines: the firmware loop fed lines as the host types them, a line
\* being the sequence of its characters without the terminator.  fed is the
\* line as readStringUntil returns it, rx what the first three statements of
\* processCommand make of it.
\* ------------------------------------------------------------------------
\* the characters String::trim removes (Arduino.h)
WhiteSpace == {" ", "\t", "\r", "\n"}

UpperCase ==
    <<"A", "B", "C", "D", "E", "F", "G", "H", "I", "J", "K", "L", "M",
      "N", "O", "P", "Q", "R", "S", "T", "U", "V", "W", "X", "Y", "Z">>
LowerCase ==
    <<"a", "b", "c", "d", "e", "f", "g", "h", "i", "j", "k", "l", "m",
      "n", "o", "p", "q", "r", "s", "t", "u", "v", "w", "x", "y", "z">>

\* std::string::find_first_not_of and find_last_not_of; 0 stands for npos
find_first_not_of(str, chars) ==
    LET at == {i \in 1..Len(str) : str[i] \notin chars}
    IN  IF at = {} THEN 0 ELSE CHOOSE i \in at : \A j \in at : i <= j

find_last_not_of(str, chars) ==
    LET at == {i \in 1..Len(str) : str[i] \notin chars}
    IN  IF at = {} THEN 0 ELSE CHOOSE i \in at : \A j \in at : i >= j

\* a trim that leaves what follows the last word
trim_LeadingOnly(str) ==
    LET start == find_first_not_of(str, WhiteSpace)
    IN  IF start = 0 THEN << >> ELSE SubSeq(str, start, Len(str))

\* String::trim
trim(str) ==
    LET start == find_first_not_of(str, WhiteSpace)
        end == find_last_not_of(str, WhiteSpace)
    IN  IF start = 0 THEN << >> ELSE SubSeq(str, start, end)

\* tolower of the C library on one character
tolower(c) ==
    IF \E i \in 1..Len(UpperCase) : UpperCase[i] = c
    THEN LowerCase[CHOOSE i \in 1..Len(UpperCase) : UpperCase[i] = c]
    ELSE c

\* String::toLowerCase
toLowerCase(str) == [i \in 1..Len(str) |-> tolower(str[i])]

\* which of the literals of processCommand the string equals (String::operator==
\* and length()): "bogus" stands for every other non-empty string
compared(str) ==
    IF str = <<"o", "n">> THEN "on"
    ELSE IF str = <<"o", "f", "f">> THEN "off"
    ELSE IF str = <<"s", "n", "a", "p">> THEN "snap"
    ELSE IF Len(str) > 0 THEN "bogus"
    ELSE ""

\* String cmdLower = cmd; cmdLower.trim(); cmdLower.toLowerCase();
cmdLowerOf(cmdRead) == compared(toLowerCase(trim(cmdRead)))

\* lines the host types
RawLines ==
    {<< >>, <<" ">>, <<"\t", " ">>, <<"\r">>,
     <<"s", "n", "a", "p">>, <<" ", "S", "n", "A", "P", "\r">>,
     <<"O", "N">>, <<"o", "f", "f", "\t">>,
     <<"x">>, <<"s", "n", " ", "a", "p">>, <<"s", "n", "a", "p", "s">>}

InitLines ==
    /\ target \in {"teensy", "native"}
    /\ pc = "running"
    /\ rx = NoLine
    /\ \E sdOk \in BOOLEAN :
         LET r == firmwareBegin(target, SEEs_ADC, SnapManager(WINDOW_SECONDS),
                                CircularBuffer(FwCapacity, 1), 0, sdOk, TRUE)
         IN  /\ adc = r.adc /\ sm = r.sm /\ cb = r.cb /\ clock = r.clock
             /\ trace = [NoTrace EXCEPT !.firstNext = r.adc.next_sample_us]
    /\ out = << >>
    /\ query = NoQuery
    /\ pushed = << >>
    /\ calls = [push |-> 0, clear |-> 0, begin |-> 0]
    /\ ev = NoEval
    /\ snapLog = NoSnap
    /\ steps = [ticks |-> LineTicks, updates |-> LineUpdates,
                commands |-> LineCommands]
    /\ cmd = NoLine
    /\ files = << >>
    /\ fed = << >>
    /\ twin = NoTwin
    /\ cell = 0
    /\ iface = NoInterface
    /\ sbuf = NoSampleBuffer

\* the host completes a line
RawLine ==
    /\ pc = "running"
    /\ rx = NoLine
    /\ steps.commands > 0
    /\ \E cmdRead \in RawLines :
         /\ fed' = cmdRead
         /\ rx' = cmdLowerOf(cmdRead)
    /\ steps' = [steps EXCEPT !.commands = @ - 1]
    /\ UNCHANGED <<cb, out, query, pushed, calls, target, pc, clock, adc, sm, ev,
                   snapLog, trace, cmd, files, twin, cell,
                   iface, sbuf>>

NextLines == Tick \/ RawLine \/ Update

SpecLines == InitLines /\ [][NextLines]_vars

\* ------------------------------------------------------------------------
\* SpecSparse: the Linux build (hits-only ring buffer) after begin(), one
\* call of sampleAndStream after the other, on time, late or early, with a
\* ring buffer small enough to fill.  fed is the history of the calls,
\* calls.push counts the calls that changed the ring buffer.
\* ------------------------------------------------------------------------
\* time between two calls of sampleAndStream
SparseDt == {50, 100, 300}

InitSparse ==
    /\ target = "native"
    /\ pc = "running"
    /\ rx = NoLine
    /\ LET r == firmwareBegin("native", SEEs_ADC, SnapManager(WINDOW_SECONDS),
                              CircularBuffer(SparseCapacity, 1), 0, TRUE, TRUE)
       IN  /\ adc = r.adc /\ sm = r.sm /\ cb = r.cb /\ clock = r.clock
           /\ trace = [NoTrace EXCEPT !.firstNext = r.adc.next_sample_us]
    /\ out = << >>
    /\ query = NoQuery
    /\ pushed = << >>
    /\ calls = [push |-> 0, clear |-> 0, begin |-> 0]
    /\ ev = NoEval
    /\ snapLog = NoSnap
    /\ steps = [ticks |-> 0, updates |-> 0, commands |-> 0]
    /\ cmd = NoLine
    /\ files = << >>
    /\ fed = << >>
    /\ twin = NoTwin
    /\ cell = 0
    /\ iface = NoInterface
    /\ sbuf = NoSampleBuffer

\* what one call of sampleAndStream leaves behind
SampleEffects(r, now_us, raw) ==
    /\ adc' = r.adc
    /\ cb' = r.cb
    /\ clock' = now_us
    /\ ev' = IF r.accepted
             THEN [accepted |-> TRUE, now_us |-> now_us, v |-> r.v,
                   hit |-> r.hit, armed |-> adc.armed,
                   last_hit_us |-> adc.last_hit_us,
                   cum_counts |-> adc.cum_counts,
                   next_sample_us |-> adc.next_sample_us, line |-> r.line]
             ELSE NoEval
    /\ fed' = Append(fed, [t |-> now_us, raw |-> raw, accepted |-> r.accepted,
                           hit |-> r.hit])
    /\ calls' = [calls EXCEPT !.push = IF r.cb # cb THEN @ + 1 ELSE @]

\* update() with no line waiting: sampleAndStream
SparseSample ==
    /\ Len(fed) < SparseSamples
    /\ \E dt \in SparseDt, raw \in DetectCounts :
         SampleEffects(sampleAndStream(target, adc, cb, U32Add(clock, dt), raw),
                       U32Add(clock, dt), raw)
    /\ UNCHANGED <<out, query, pushed, target, pc, rx, sm, snapLog, trace,
                   steps, cmd, files, twin, cell,
                   iface, sbuf>>

NextSparse == SparseSample

SpecSparse == InitSparse /\ [][NextSparse]_vars

\* ------------------------------------------------------------------------
\* SpecWrap: the detection block of the Teensy firmware 71.6 min after
\* power-up, where micros() wraps from 2^32 - 1 to 0.  The detector has been
\* quiet so far.  fed is the history of the samples; `since` is the time of
\* a sample counted from the start of the run, which does not wrap.
\* ------------------------------------------------------------------------
\* micros() at the start of the run: 2^32 - 400
WrapStart == -400
\* times between two samples
WrapDt == {100, 200}

InitWrap ==
    /\ target = "teensy"
    /\ pc = "running"
    /\ clock = WrapStart
    /\ rx = NoLine
    /\ adc = [SEEs_ADC EXCEPT !.t0_us = BEGIN_DELAY_MS * 1000,
                              !.next_sample_us = U32Add(WrapStart, SAMPLE_US)]
    /\ sm = snapBegin(SnapManager(WINDOW_SECONDS), TRUE)
    /\ cb = begin(CircularBuffer(FwCapacity, 1), TRUE)
    /\ out = << >>
    /\ query = NoQuery
    /\ pushed = << >>
    /\ calls = [push |-> 0, clear |-> 0, begin |-> 0]
    /\ ev = NoEval
    /\ snapLog = NoSnap
    /\ trace = NoTrace
    /\ steps = [ticks |-> 0, updates |-> 0, commands |-> 0]
    /\ cmd = NoLine
    /\ files = << >>
    /\ fed = << >>
    /\ twin = NoTwin
    /\ cell = 0
    /\ iface = NoInterface
    /\ sbuf = NoSampleBuffer

\* one evaluation of the detection block, dt after the one before
EvaluateLate ==
    /\ Len(fed) < WrapFed
    /\ \E dt \in WrapDt, raw \in DetectCounts :
         LET now_us == U32Add(clock, dt)
             d == detect(adc, Volts(raw), now_us)
             before == IF fed = << >> THEN 0 ELSE fed[Len(fed)].since
         IN  /\ adc' = d.adc
             /\ clock' = now_us
             /\ fed' = Append(fed, [t |-> now_us, since |-> before + dt,
                                    raw |-> raw, armed |-> adc.armed,
                                    hit |-> d.hit])
    /\ UNCHANGED <<cb, out, query, pushed, calls, target, pc, rx, sm, ev,
                   snapLog, trace, steps, cmd, files, twin, cell,
                   iface, sbuf>>

NextWrap == EvaluateLate

SpecWrap == InitWrap /\ [][NextWrap]_vars

\* ------------------------------------------------------------------------
\* SpecSnap: a SnapManager with a window of 1 ms or 2 ms and a ring buffer
\* filled at the sample rate; captureSnap is called with a trigger time at
\* or before the newest sample
\* ------------------------------------------------------------------------
\* windows given to the constructor, in ms
SnapWindows == {1, 2}
\* how long before the newest sample the trigger time lies
SnapTriggerAges == {0, 1000}
\* micros() when the first sample is pushed
SnapStart == 10000

InitSnap ==
    /\ target = "teensy"
    /\ pc = "running"
    /\ clock = SnapStart
    /\ rx = NoLine
    /\ adc = [SEEs_ADC EXCEPT !.t0_us = SnapStart, !.next_sample_us = SnapStart]
    /\ \E w \in SnapWindows : sm = snapBegin(SnapManager(w), TRUE)
    /\ cb = begin(CircularBuffer(SnapCapacity, 1), TRUE)
    /\ out = << >>
    /\ query = NoQuery
    /\ pushed = << >>
    /\ calls = [push |-> 0, clear |-> 0, begin |-> 1]
    /\ ev = NoEval
    /\ snapLog = NoSnap
    /\ trace = NoTrace
    /\ steps = [ticks |-> 0, updates |-> 0, commands |-> 0]
    /\ cmd = NoLine
    /\ files = << >>
    /\ fed = << >>
    /\ twin = NoTwin
    /\ cell = 0
    /\ iface = NoInterface
    /\ sbuf = NoSampleBuffer

\* one sample interval passes and SEEs_ADC::sampleAndStream pushes a sample
SnapSample ==
    /\ calls.push < SnapPushes
    /\ \E raw \in {372} :
         LET r == sampleAndStream(target, adc, cb, clock, raw)
         IN  /\ adc' = r.adc
             /\ cb' = r.cb
    /\ clock' = U32Add(clock, SAMPLE_US)
    /\ calls' = [calls EXCEPT !.push = @ + 1]
    /\ UNCHANGED <<out, query, pushed, target, pc, rx, sm, ev, snapLog, trace,
                   steps, cmd, files, fed, twin, cell,
                   iface, sbuf>>

\* SnapManager::captureSnap with the file it writes
Capture ==
    /\ steps.commands < SnapCaptures
    /\ \E age \in SnapTriggerAges, allocOk \in BOOLEAN, fileOk \in BOOLEAN :
         LET triggerTimeUs == U32Sub(U32Sub(clock, SAMPLE_US), age)
             r == captureSnap(sm, cb, triggerTimeUs, allocOk, fileOk)
         IN  /\ sm' = r.sm
             /\ cb' = r.cb
             /\ snapLog' = [commanded |-> TRUE, trigger |-> triggerTimeUs,
                            ok |-> r.ok, error |-> r.error,
                            samples |-> r.samples,
                            artifact |-> IF r.ok
                                         THEN writeSnapFile(sm, r.file, r.samples,
                                                  Len(r.samples), triggerTimeUs)
                                         ELSE NoFile]
             /\ files' = IF r.ok THEN Append(files, r.file) ELSE files
    /\ steps' = [steps EXCEPT !.commands = @ + 1]
    /\ UNCHANGED <<out, query, pushed, calls, target, pc, clock, rx, adc, ev,
                   trace, cmd, fed, twin, cell,
                   iface, sbuf>>

NextSnap == SnapSample \/ Capture

SpecSnap == InitSnap /\ [][NextSnap]_vars

\* ------------------------------------------------------------------------
\* SEEs_Interface.cpp: the byte-stream parser of the FPGA packets
\* ------------------------------------------------------------------------
\* a ^ b on unsigned values
RECURSIVE BitXor(_, _)
BitXor(a, b) ==
    IF a = 0 THEN b
    ELSE IF b = 0 THEN a
    ELSE ((a + b) % 2) + 2 * BitXor(a \div 2, b \div 2)

\* x ^ 0x1021 on a uint16_t: bits 12, 5 and 0 change
FlipBit(x, bit) == IF (x \div bit) % 2 = 1 THEN x - bit ELSE x + bit
XorPoly(x) == FlipBit(FlipBit(FlipBit(x, 4096), 32), 1)

\* the inner loop of crc16_ccitt: j more shifts of the uint16_t crc
RECURSIVE crcShift(_, _)
crcShift(crc, j) ==
    IF j = 0 THEN crc
    ELSE CHOOSE r \in {crcShift(c, j - 1) :
                          c \in {IF crc >= 32768
                                 THEN XorPoly((crc * 2) % 65536)
                                 ELSE (crc * 2) % 65536}} : TRUE

\* the outer loop of crc16_ccitt, from byte i of data on; crc ^= data[i] << 8
\* changes the high byte of crc
RECURSIVE crcLoop(_, _, _)
crcLoop(data, i, crc) ==
    IF i > Len(data) THEN crc
    ELSE CHOOSE r \in {crcLoop(data, i + 1, c) :
                          c \in {crcShift(BitXor(crc \div 256, data[i]) * 256
                                              + (crc % 256), 8)}} : TRUE

\* crc16_ccitt(data, len), data being the len bytes
crc16_ccitt(data) == crcLoop(data, 1, 65535)

RBUF_SIZE == 512
\* sizeof(SEEsRawPacket), a packed struct
PacketSize == 18

\* the bytes of a little-endian uint16_t and uint32_t, and back
Bytes16(x) == <<x % 256, x \div 256>>
Bytes32(x) == Bytes16(Lo16(x)) \o Bytes16(Hi16(x) % 65536)
Word16(b, i) == b[i] + 256 * b[i + 1]
Word32(b, i) == Wrap16(Word16(b, i + 2)) * 65536 + Word16(b, i)

\* rbuf_empty, rbuf_full
rbuf_empty(p) == p.head = p.tail
rbuf_full(p) == ((p.head + 1) % RBUF_SIZE) = p.tail

\* rbuf_push
rbuf_push(p, b) ==
    IF ~rbuf_full(p)
    THEN [p EXCEPT !.ringbuf[p.head] = b, !.head = (p.head + 1) % RBUF_SIZE]
    ELSE p

\* rbuf_pop on a ring that is not empty: b is the byte stored through the
\* reference
rbuf_pop(p) ==
    [b |-> p.ringbuf[p.tail], p |-> [p EXCEPT !.tail = (p.tail + 1) % RBUF_SIZE]]

\* sees_ingest
sees_ingest(p, byte) == rbuf_push(p, byte)

\* pkt_accum.crc
crcField(accum) == Word16(accum, PacketSize - 1)

\* a parser that goes on taking bytes while a packet waits
RECURSIVE sees_poll_Greedy(_)
sees_poll_Greedy(p) ==
    IF ~rbuf_empty(p)
    THEN LET popped == rbuf_pop(p)
             accum == [p.pkt_accum EXCEPT ![p.pkt_index + 1] = popped.b]
             index == p.pkt_index + 1
             p1 == [popped.p EXCEPT !.pkt_accum = accum]
             p2 == IF index >= PacketSize
                   THEN [p1 EXCEPT !.pkt_index = 0,
                                   !.packet_ready =
                                       IF crc16_ccitt(SubSeq(accum, 1, PacketSize - 2))
                                              = crcField(accum)
                                       THEN TRUE ELSE @]
                   ELSE [p1 EXCEPT !.pkt_index = index]
         IN  CHOOSE r \in {sees_poll_Greedy(q) : q \in {p2}} : TRUE
    ELSE p

\* sees_poll: the statics when it returns; its return value is packet_ready
RECURSIVE sees_poll(_)
sees_poll(p) ==
    IF ~rbuf_empty(p) /\ ~p.packet_ready
    THEN LET popped == rbuf_pop(p)
             accum == [p.pkt_accum EXCEPT ![p.pkt_index + 1] = popped.b]
             index == p.pkt_index + 1
             p1 == [popped.p EXCEPT !.pkt_accum = accum]
             p2 == IF index >= PacketSize
                   THEN [p1 EXCEPT !.pkt_index = 0,
                                   !.packet_ready =
                                       IF crc16_ccitt(SubSeq(accum, 1, PacketSize - 2))
                                              = crcField(accum)
                                       THEN TRUE ELSE @]
                   ELSE [p1 EXCEPT !.pkt_index = index]
         IN  CHOOSE r \in {sees_poll(q) : q \in {p2}} : TRUE
    ELSE p

\* the bytes of a TelemetryHeader: source_id, mode_flags, the uint64_t
\* timestamp, seq, reserved[5]
HeaderBytes(h) ==
    <<h.source_id, h.mode_flags>> \o Bytes32(h.timestamp) \o <<0, 0, 0, 0>>
        \o Bytes16(h.seq) \o h.reserved

\* a frame the caller has not initialised
NoFrame == [written |-> FALSE]

\* a sees_next_frame that does not clear the flag
sees_next_frame_KeepsReady(p, frame) ==
    IF ~p.packet_ready
    THEN [ret |-> FALSE, frame |-> frame, p |-> p]
    ELSE LET header == [source_id |-> 1, mode_flags |-> 0,
                        timestamp |-> Word32(p.pkt_accum, 1),
                        seq |-> p.seq_counter,
                        reserved |-> <<0, 0, 0, 0, 0>>]
         IN  [ret |-> TRUE,
              frame |-> [written |-> TRUE,
                         header |-> header,
                         payload |-> p.pkt_accum,
                         crc |-> crc16_ccitt(HeaderBytes(header) \o p.pkt_accum)],
              p |-> [p EXCEPT !.seq_counter = (@ + 1) % 65536]]

\* sees_next_frame(out): its return value, the caller's frame and the
\* statics when it returns.  `payload` is the first sizeof(SEEsRawPacket)
\* bytes of out.payload, the only ones written; the header's timestamp is
\* the packet's uint32_t widened to 64 bits.
sees_next_frame(p, frame) ==
    IF ~p.packet_ready
    THEN [ret |-> FALSE, frame |-> frame, p |-> p]
    ELSE LET header == [source_id |-> 1, mode_flags |-> 0,
                        timestamp |-> Word32(p.pkt_accum, 1),
                        seq |-> p.seq_counter,
                        reserved |-> <<0, 0, 0, 0, 0>>]
         IN  [ret |-> TRUE,
              frame |-> [written |-> TRUE,
                         header |-> header,
                         payload |-> p.pkt_accum,
                         crc |-> crc16_ccitt(HeaderBytes(header) \o p.pkt_accum)],
              p |-> [p EXCEPT !.seq_counter = (@ + 1) % 65536,
                              !.packet_ready = FALSE]]

\* the packet SEEs::run_cycle builds: pkt{} with timestamp, bin_counts and
\* coincidence set and the CRC of the first sizeof(pkt) - 2 bytes
RawPacket(timestamp, bins, coincidence) ==
    LET body == Bytes32(timestamp) \o Bytes16(bins[1]) \o Bytes16(bins[2])
                \o Bytes16(bins[3]) \o Bytes16(bins[4])
                \o Bytes16(coincidence) \o Bytes16(0)
    IN  body \o Bytes16(crc16_ccitt(body))

\* ------------------------------------------------------------------------
\* SpecInterface: the parser fed packets byte by byte, some of them damaged
\* on the way, with sees_poll and sees_next_frame called at any time
\* ------------------------------------------------------------------------
\* what millis() and random() gave when the packets were built
WirePackets == {RawPacket(2500, <<1, 20, 99, 0>>, 3),
                RawPacket(70000, <<0, 0, 0, 0>>, 9)}
\* what happens to a packet on the wire
WireFaults == {"none", "crc", "short"}

Damaged(bytes, fault) ==
    IF fault = "crc" THEN [bytes EXCEPT ![PacketSize] = (@ + 1) % 256]
    ELSE IF fault = "short" THEN SubSeq(bytes, 1, PacketSize - 1)
    ELSE bytes

\* the statics at power-up, and after 65535 packets have been parsed and
\* taken
InterfaceStarts == {[head |-> 0, seq |-> 0], [head |-> 494, seq |-> 65535]}

InitInterface ==
    /\ cb = CircularBuffer(FwCapacity, 1)
    /\ out = << >>
    /\ query = NoQuery
    /\ pushed = << >>
    /\ calls = [push |-> 0, clear |-> 0, begin |-> 0]
    /\ target = "teensy"
    /\ pc = "running"
    /\ clock = 0
    /\ rx = NoLine
    /\ adc = SEEs_ADC
    /\ sm = SnapManager(WINDOW_SECONDS)
    /\ ev = NoEval
    /\ snapLog = NoSnap
    /\ trace = NoTrace
    /\ steps = [ticks |-> 0, updates |-> 0, commands |-> 0]
    /\ cmd = NoLine
    /\ files = << >>
    /\ fed = << >>
    /\ twin = NoTwin
    /\ cell = 0
    /\ sbuf = NoSampleBuffer
    /\ \E start \in InterfaceStarts :
         LET old == RawPacket(2500, <<1, 20, 99, 0>>, 3)
         IN  iface =
               [ringbuf |-> [i \in 0..(RBUF_SIZE - 1) |->
                               IF start.seq = 0 THEN 0
                               ELSE old[((i + 10) % PacketSize) + 1]],
                head |-> start.head,
                tail |-> start.head,
                pkt_accum |-> IF start.seq = 0 THEN [i \in 1..PacketSize |-> 0]
                              ELSE old,
                pkt_index |-> 0,
                packet_ready |-> FALSE,
                seq_counter |-> start.seq,
                \* the caller
                frame |-> NoFrame,
                ret |-> FALSE,        \* what the last call returned
                \* history
                wire |-> << >>,       \* bytes of the packet on the wire
                sent |-> 0,           \* packets put on the wire
                consumed |-> << >>,   \* bytes sees_poll took, in order
                readies |-> 0,        \* times packet_ready went up
                before |-> start.seq, \* frames taken before the first one here
                emitted |-> << >>]    \* frames sees_next_frame returned

\* the statics of SEEs_Interface.cpp within iface
Statics(f) ==
    [ringbuf |-> f.ringbuf, head |-> f.head, tail |-> f.tail,
     pkt_accum |-> f.pkt_accum, pkt_index |-> f.pkt_index,
     packet_ready |-> f.packet_ready, seq_counter |-> f.seq_counter]

WithStatics(f, p) ==
    [f EXCEPT !.ringbuf = p.ringbuf, !.head = p.head, !.tail = p.tail,
              !.pkt_accum = p.pkt_accum, !.pkt_index = p.pkt_index,
              !.packet_ready = p.packet_ready, !.seq_counter = p.seq_counter]

\* the bytes of the ring from index from up to, not including, index to
RECURSIVE RingBytes(_, _, _)
RingBytes(ringbuf, from, to) ==
    IF from = to THEN << >>
    ELSE <<ringbuf[from]>> \o RingBytes(ringbuf, (from + 1) % RBUF_SIZE, to)

othersUnchanged ==
    UNCHANGED <<cb, out, query, pushed, calls, target, pc, clock, rx, adc, sm,
                ev, snapLog, trace, steps, cmd, files, fed, twin, cell, sbuf>>

\* a packet leaves the detector
SendPacket ==
    /\ iface.wire = << >>
    /\ iface.sent < MaxPackets
    /\ \E pkt \in WirePackets, fault \in WireFaults :
         iface' = [iface EXCEPT !.wire = Damaged(pkt, fault), !.sent = @ + 1]
    /\ othersUnchanged

\* the next byte of the wire is given to sees_ingest
Ingest ==
    /\ iface.wire # << >>
    /\ \E p \in {sees_ingest(Statics(iface), Head(iface.wire))} :
           iface' = [WithStatics(iface, p) EXCEPT !.wire = Tail(iface.wire)]
    /\ othersUnchanged

\* a call of sees_poll
Poll ==
    /\ \E p \in {sees_poll(Statics(iface))} :
           iface' = [WithStatics(iface, p) EXCEPT
                        !.ret = p.packet_ready,
                        !.consumed = @ \o RingBytes(iface.ringbuf, iface.tail, p.tail),
                        !.readies = IF p.packet_ready /\ ~iface.packet_ready
                                    THEN @ + 1 ELSE @]
    /\ othersUnchanged

\* a call of sees_next_frame on the caller's frame
NextFrame ==
    /\ \E r \in {sees_next_frame(Statics(iface), iface.frame)} :
           iface' = [WithStatics(iface, r.p) EXCEPT
                        !.ret = r.ret,
                        !.frame = r.frame,
                        !.emitted = IF r.ret THEN Append(@, r.frame) ELSE @]
    /\ othersUnchanged

NextInterface == SendPacket \/ Ingest \/ Poll \/ NextFrame

SpecInterface == InitInterface /\ [][NextInterface]_vars

\* ------------------------------------------------------------------------
\* class SampleBuffer (SampleBuffer.hpp): the rolling buffer in RAM
\* ------------------------------------------------------------------------
\* BUFFER_SECONDS * SAMPLES_PER_SEC
TOTAL_SAMPLES == TotalSamples

\* struct CompactSample
CompactSample(adc_raw, time_delta, hit) ==
    [adc_raw |-> adc_raw, time_delta |-> time_delta, hit |-> hit]

\* SampleBuffer::SampleBuffer
SampleBuffer ==
    [allocated |-> FALSE, buffer |-> << >>, head |-> 0, size |-> 0,
     lastTimeUs |-> 0, totalHits |-> 0]

\* SampleBuffer::begin when micros() returns nowUs; allocOk is the outcome
\* of new (std::nothrow)
sampleBufferBegin(b, allocOk, nowUs) ==
    IF ~allocOk
    THEN [b EXCEPT !.allocated = FALSE, !.buffer = << >>]
    ELSE [b EXCEPT !.allocated = TRUE,
                   !.buffer = [i \in 0..(TOTAL_SAMPLES - 1) |-> Uninit],
                   !.head = 0, !.size = 0, !.lastTimeUs = nowUs,
                   !.totalHits = 0]

\* SampleBuffer::record when micros() returns nowUs
sampleBufferRecord(b, adc_raw, hit, nowUs) ==
    IF ~b.allocated
    THEN b
    ELSE LET delta == U32Sub(nowUs, b.lastTimeUs)
             clamped == IF ULt(65535, delta) THEN 65535 ELSE delta
         IN  [b EXCEPT !.lastTimeUs = nowUs,
                       !.buffer[b.head] = CompactSample(adc_raw, clamped, hit),
                       !.totalHits = IF hit # 0 THEN U32Add(@, 1) ELSE @,
                       !.head = (b.head + 1) % TOTAL_SAMPLES,
                       !.size = IF b.size < TOTAL_SAMPLES THEN b.size + 1 ELSE b.size]

\* SampleBuffer::clear when micros() returns nowUs
sampleBufferClear(b, nowUs) ==
    [b EXCEPT !.head = 0, !.size = 0, !.totalHits = 0, !.lastTimeUs = nowUs]

\* (s.adc_raw / 4095.0f) * 3.3f as Serial.print(voltage_V, 4) shows it, in
\* units of 0.1 mV
SnapVolts(adc_raw) == (adc_raw * 33000 + 2047) \div 4095

\* the CSV rows of outputSnap from loop index i on; time_us is time_ms in
\* microseconds, as Serial.print(time_ms, 3) shows it
RECURSIVE outputRows(_, _, _, _, _)
outputRows(b, start, i, time_us, runningHits) ==
    IF i < b.size
    THEN LET s == b.buffer[(start + i) % TOTAL_SAMPLES]
             t == IF i > 0 THEN time_us + s.time_delta ELSE time_us
             hits == IF s.hit # 0 THEN runningHits + 1 ELSE runningHits
         IN  <<[time_us |-> t, voltage |-> SnapVolts(s.adc_raw), hit |-> s.hit,
                total_hits |-> hits]>>
             \o outputRows(b, start, i + 1, t, hits)
    ELSE << >>

\* an outputSnap that always starts at slot 0
outputSnap_FromSlotZero(b) ==
    IF ~b.allocated \/ b.size = 0
    THEN [first |-> "[SampleBuffer] No data available", rows |-> << >>,
          samples |-> 0]
    ELSE [first |-> "[SNAP_START]",
          rows |-> outputRows(b, 0, 0, 0, 0),
          samples |-> b.size]

\* SampleBuffer::outputSnap: what it prints on Serial.  `first` is the first
\* line, `rows` the CSV rows between the column header and "[SNAP_END]",
\* `samples` the count of the closing line.  The object is not written.
outputSnap(b) ==
    IF ~b.allocated \/ b.size = 0
    THEN [first |-> "[SampleBuffer] No data available", rows |-> << >>,
          samples |-> 0]
    ELSE [first |-> "[SNAP_START]",
          rows |-> outputRows(b, IF b.size < TOTAL_SAMPLES THEN 0 ELSE b.head,
                              0, 0, 0),
          samples |-> b.size]

\* ------------------------------------------------------------------------
\* SpecSampleBuffer: a SampleBuffer after begin(), given samples, cleared
\* and printed in any order
\* ------------------------------------------------------------------------
\* the samples recorded: 0.2998 V, a hit at 0.5 V, and 0.5 V without a hit
RamSamples == {[adc_raw |-> 372, hit |-> 0], [adc_raw |-> 620, hit |-> 1],
               [adc_raw |-> 620, hit |-> 0]}
\* time between two calls, in microseconds
RamDt == {100, 70000}
NothingPrinted == [first |-> "<none>", rows |-> << >>, samples |-> 0]

InitSampleBuffer ==
    /\ cb = CircularBuffer(FwCapacity, 1)
    /\ out = << >>
    /\ query = NoQuery
    /\ pushed = << >>
    /\ calls = [push |-> 0, clear |-> 0, begin |-> 1]
    /\ target = "teensy"
    /\ pc = "running"
    /\ clock = 0
    /\ rx = NoLine
    /\ adc = SEEs_ADC
    /\ sm = SnapManager(WINDOW_SECONDS)
    /\ ev = NoEval
    /\ snapLog = NoSnap
    /\ trace = NoTrace
    /\ steps = [ticks |-> 0, updates |-> 0, commands |-> 0]
    /\ cmd = NoLine
    /\ files = << >>
    /\ fed = << >>
    /\ twin = NoTwin
    /\ cell = 0
    /\ iface = NoInterface
    /\ \E allocOk \in BOOLEAN :
         sbuf = [obj |-> sampleBufferBegin(SampleBuffer, allocOk, 0),
                 printed |-> NothingPrinted,  \* the last outputSnap
                 recorded |-> << >>]          \* history: samples since clear()

restUnchanged ==
    UNCHANGED <<cb, out, query, pushed, target, pc, rx, adc, sm, ev, snapLog,
                trace, steps, cmd, files, fed, twin, cell, iface>>

\* time passes and record() is called
RamRecord ==
    /\ calls.push < RamRecords
    /\ \E dt \in RamDt, s \in RamSamples :
         \E b \in {sampleBufferRecord(sbuf.obj, s.adc_raw, s.hit, U32Add(clock, dt))} :
           /\ sbuf' = [sbuf EXCEPT
                         !.obj = b,
                         !.recorded = IF sbuf.obj.allocated
                                      THEN Append(@, b.buffer[sbuf.obj.head])
                                      ELSE @]
           /\ clock' = U32Add(clock, dt)
    /\ calls' = [calls EXCEPT !.push = @ + 1]
    /\ restUnchanged

\* time passes and clear() is called
RamClear ==
    /\ calls.clear < RamClears
    /\ \E dt \in RamDt :
         /\ sbuf' = [sbuf EXCEPT !.obj = sampleBufferClear(@, U32Add(clock, dt)),
                                 !.recorded = << >>]
         /\ clock' = U32Add(clock, dt)
    /\ calls' = [calls EXCEPT !.clear = @ + 1]
    /\ restUnchanged

\* outputSnap() is called
RamOutput ==
    /\ sbuf' = [sbuf EXCEPT !.printed = outputSnap(sbuf.obj)]
    /\ UNCHANGED <<calls, clock>>
    /\ restUnchanged

NextSampleBuffer == RamRecord \/ RamClear \/ RamOutput

SpecSampleBuffer == InitSampleBuffer /\ [][NextSampleBuffer]_vars

\* ========================================================================
\* Properties
\* ========================================================================

\* ---- the snap command -----------------------------------------------------
Queried == snapLog.commanded /\ snapLog.queried

\* C1: after a snap command with trigger time T, extractWindow is not called
\* on the store before windowSeconds have elapsed after T.
C1_QueryAfterSettle ==
    Queried => UGeq(U32Sub(snapLog.queryAt, snapLog.trigger),
                    WindowUs(sm.windowSeconds))

\* the latest sample instant that is due and not yet sampled when the query
\* is made (meaningful when one is due)
LastPending ==
    LET behind == I32(U32Sub(snapLog.queryAt, snapLog.nextSampleAtQuery))
    IN  U32Add(snapLog.nextSampleAtQuery, (behind \div SAMPLE_US) * SAMPLE_US)

\* C2: every sample instant that becomes due between the trigger and the
\* extractWindow query has been sampled when the query is made.
C2_SamplingThroughSettle ==
    Queried =>
        \/ I32(U32Sub(snapLog.queryAt, snapLog.nextSampleAtQuery)) < 0
        \/ I32(U32Sub(LastPending, snapLog.trigger)) <= 0

\* ---- the ring store -------------------------------------------------------
StrictlyIncreasing(seq) ==
    \A i \in 1..(Len(seq) - 1) : ULt(seq[i].timestamp, seq[i + 1].timestamp)

LastN(seq, n) == SubSeq(seq, Len(seq) - n + 1, Len(seq))

Overfilled ==
    /\ cb.allocated
    /\ Len(pushed) > cb.capacity
    /\ StrictlyIncreasing(pushed)

\* C3: after M > N pushes with strictly increasing timestamps on a store of
\* capacity N, size() is N and logical indices 0..N-1 read the last N pushed
\* records, oldest first.
C3_KeepsLastN ==
    Overfilled => /\ size(cb) = cb.capacity
                  /\ Retained(cb) = LastN(pushed, cb.capacity)

C3_Witness == Overfilled /\ cb.capacity >= 2 /\ Len(pushed) >= cb.capacity + 2

\* timestamp ts lies in [max(0, c - w*1e6), c + w*1e6]
InClampedWindow(ts, c, windowSeconds) ==
    LET lower == IF c - WindowUs(windowSeconds) < 0 THEN 0
                 ELSE c - WindowUs(windowSeconds)
    IN  ts >= lower /\ ts <= c + WindowUs(windowSeconds)

ClampedMatches ==
    LET Test(sample) == InClampedWindow(sample.timestamp, query.centerTimeUs,
                                        query.windowSeconds)
    IN  SelectSeq(Retained(cb), Test)

\* C4: extractWindow(c, w, maxOut), with maxOut not below the number of
\* matches, returns exactly the retained records whose timestamp lies in
\* [max(0, c - w*1e6), c + w*1e6].
C4_ClampedWindow ==
    (query.called /\ Len(ClampedMatches) <= query.maxSamples)
        => out = ClampedMatches

\* C5: 0 <= size() <= capacity(), capacity() never changes, and isFull() is
\* true exactly when size() = capacity().
C5_SizeWithinCapacity ==
    [][/\ capacity(cb') = capacity(cb)
       /\ 0 <= size(cb')
       /\ size(cb') <= capacity(cb')
       /\ isFull(cb') <=> (size(cb') = capacity(cb'))]_vars

C5_Witness == cb.allocated /\ isFull(cb) /\ Len(pushed) > cb.capacity

\* ---- the hit detector -----------------------------------------------------
InWindow(v) == v >= LOWER_ENTER_V /\ v <= UPPER_LIMIT_V
RefractoryOver == UGeq(U32Sub(ev.now_us, ev.last_hit_us), REFRACT_US)

\* C6: an armed evaluation emits a hit exactly when the voltage is inside
\* [lowerEnter, upperLimit] and at least refractoryUs passed since the last
\* hit; a hit stamps lastHitTimestamp and disarms; otherwise the detector
\* stays armed with lastHitTimestamp and the count unchanged.
C6_ArmedRule ==
    (ev.accepted /\ ev.armed) =>
        /\ (ev.hit = 1) <=> (InWindow(ev.v) /\ RefractoryOver)
        /\ ev.hit = 1 => adc.last_hit_us = ev.now_us /\ ~adc.armed
        /\ ev.hit = 0 => /\ adc.armed
                         /\ adc.last_hit_us = ev.last_hit_us
                         /\ adc.cum_counts = ev.cum_counts

C6_Witness ==
    /\ ev.accepted /\ ev.armed /\ ev.hit = 1
    /\ U32Sub(ev.now_us, ev.last_hit_us) = REFRACT_US

\* C7: a disarmed evaluation never emits a hit, and re-arms exactly when the
\* voltage is below lowerExit.
C7_DisarmedRule ==
    (ev.accepted /\ ~ev.armed) =>
        /\ ev.hit = 0
        /\ adc.armed <=> (ev.v < LOWER_EXIT_V)

C7_Witness ==
    /\ ev.accepted /\ ~ev.armed
    /\ InWindow(ev.v) /\ RefractoryOver
    /\ ~adc.armed

\* C8: two consecutive emitted hits are at least refractoryUs apart.
C8_HitsRefractoryApart ==
    trace.emitted >= 2 => UGeq(trace.gap, REFRACT_US)

\* a second hit came after the detector had re-armed and refused a rise
\* inside the refractory interval
C8_Witness == trace.emitted >= 2 /\ trace.refusedBefore

ScenarioTimes == <<0, 100, 200, 300, 50000>>
ScenarioCounts == <<124, 620, 620, 124, 620>>
ScenarioHits == <<0, 1, 0, 0, 1>>

\* what was fed so far is the beginning of the scenario
OnScenario ==
    /\ Len(fed) <= Len(ScenarioTimes)
    /\ \A i \in 1..Len(fed) :
         fed[i].t = ScenarioTimes[i] /\ fed[i].raw = ScenarioCounts[i]

\* C11: from the constructed (armed) detector, the samples 0.1 V, 0.5 V,
\* 0.5 V, 0.1 V, 0.5 V at t = 0, 100, 200, 300, 50000 us give a hit at
\* t = 100, none at t = 0, 200 and 300, and a hit again at t = 50000.
C11_Scenario ==
    OnScenario => \A i \in 1..Len(fed) : fed[i].hit = ScenarioHits[i]

\* what the detection block does with the scenario: the rise at t = 100 and
\* the sample at t = 200 come less than REFRACT_US after _last_hit_us = 0
C11_ScenarioAsBuilt ==
    OnScenario => \A i \in 1..Len(fed) : fed[i].hit = <<0, 0, 0, 0, 1>>[i]

C11_ScenarioRun == OnScenario /\ Len(fed) = 5

\* ---- the acquisition loop --------------------------------------------------
\* this step is one pass of loop()
PassTaken == steps'.updates # steps.updates

\* C12: a call of sampleAndStream at time now takes a sample exactly when
\* (int32)(now - nextSampleUs) >= 0; taking one adds exactly sampleIntervalUs
\* to nextSampleUs, so after k samples nextSampleUs is its initial value plus
\* k * sampleIntervalUs (mod 2^32); a call that takes none leaves it alone.
C12_Gate ==
    [][PassTaken =>
        /\ IF I32(U32Sub(clock', adc.next_sample_us)) >= 0
           THEN /\ ev'.accepted
                /\ adc'.next_sample_us = U32Add(adc.next_sample_us, SAMPLE_US)
                /\ trace'.accepted = trace.accepted + 1
           ELSE /\ ~ev'.accepted
                /\ adc'.next_sample_us = adc.next_sample_us
                /\ trace'.accepted = trace.accepted
        /\ adc'.next_sample_us
             = U32Add(trace'.firstNext, trace'.accepted * SAMPLE_US)]_vars

\* a sample taken late (now is past nextSampleUs) after an earlier one
C12_Witness ==
    /\ ev.accepted /\ ev.now_us # ev.next_sample_us
    /\ trace.accepted >= 2

\* the slot the latest push wrote
Newest(b) == b.buffer[(b.head + b.capacity - 1) % b.capacity]

\* ring b2 is ring b after exactly one push
OnePush(b, b2) ==
    /\ b2.allocated /\ b2.capacity = b.capacity
    /\ b2.head = (b.head + 1) % b.capacity
    /\ b2.size = IF b.size < b.capacity THEN b.size + 1 ELSE b.size
    /\ \A i \in 0..(b.capacity - 1) : i # b.head => b2.buffer[i] = b.buffer[i]

\* C13: in dense mode (SEEs_ADC) a call that takes a sample evaluates it
\* once and pushes exactly one record, stamped with that call's now and
\* carrying the detector's hit output and the count after the evaluation;
\* a call that takes none pushes nothing.
C13_DensePush ==
    [][(PassTaken /\ target = "teensy") =>
        IF ev'.accepted
        THEN /\ OnePush(cb, cb')
             /\ Newest(cb').timestamp = clock'
             /\ Newest(cb').hit = ev'.hit
             /\ Newest(cb').voltage = ev'.v
             /\ Newest(cb').cum_counts = adc'.cum_counts
             /\ adc'.cum_counts = ev'.cum_counts + ev'.hit
             /\ trace'.accepted = trace.accepted + 1
        ELSE cb' = cb /\ trace'.accepted = trace.accepted]_vars

\* the second hit of a run sits in the ring with the count 2
C13_Witness ==
    /\ target = "teensy" /\ ev.accepted /\ ev.hit = 1
    /\ cb.size >= 2 /\ Newest(cb).cum_counts = 2

\* C14: whether collection is on or off, a call that takes a sample pushes
\* its record into the ring buffer, and a pass that reads `on` or `off`
\* changes nothing in the ring buffer but for that push.
C14_RingNotGated ==
    [][(PassTaken /\ target = "teensy") =>
        /\ ev'.accepted => OnePush(cb, cb')
        /\ cb'.size >= cb.size
        /\ rx \in {"on", "off"} =>
              /\ adc'.isCollecting = (rx = "on")
              /\ IF ev'.accepted THEN OnePush(cb, cb') ELSE cb' = cb]_vars

\* `off` read while collecting, with the sample of that pass pushed
C14_Witness ==
    /\ target = "teensy" /\ cmd = "off" /\ ~adc.isCollecting
    /\ trace.evals < trace.accepted
    /\ ev.accepted /\ cb.size >= 2

\* ---- captureSnap ------------------------------------------------------------
\* C15: captureSnap on a store with size() = 0 fails with the empty-store
\* error, without calling extractWindow, writing a file or counting a snap.
C15_EmptyStore ==
    (snapLog.commanded /\ snapLog.sizeAtCall = 0) =>
        /\ ~snapLog.ok
        /\ snapLog.error = "empty"
        /\ ~snapLog.queried
        /\ snapLog.file = NoFile
        /\ snapLog.countAfter = snapLog.countBefore

\* C16: a capture on a non-empty store whose extraction returns no record
\* does not return the failure result.
C16_EmptyWindowNoFailure ==
    (snapLog.commanded /\ snapLog.queried /\ Len(snapLog.samples) = 0) =>
        snapLog.ok

\* C17: with the card unavailable (at startup, or when the file is opened) a
\* snap on a non-empty store still succeeds and the snap counter goes up.
C17_SucceedsWithoutCard ==
    (/\ snapLog.commanded /\ snapLog.sizeAtCall > 0
     /\ ~snapLog.sdAvailable \/ snapLog.error = "open") =>
        /\ snapLog.ok
        /\ snapLog.countAfter = snapLog.countBefore + 1

\* C19: the snap counter never goes down, goes up by exactly 1 with each
\* successful capture and stays with a failed one, and no two files on the
\* card carry the same sequence number.
C19_SequenceNumbers ==
    [][LET captured == PassTaken /\ rx = "snap" /\ snapLog'.ok
       IN  /\ sm'.snapCount = IF captured THEN sm.snapCount + 1 ELSE sm.snapCount
           /\ sm'.snapCount >= sm.snapCount
           /\ IF captured
              THEN /\ files' = Append(files, snapLog'.file)
                   /\ snapLog'.file.seq = Pad(DigitsU32(sm.snapCount), 5)
              ELSE files' = files
           /\ \A i, j \in 1..Len(files') :
                 files'[i].seq = files'[j].seq => i = j]_vars

\* two snaps saved, after a failed one
C19_Witness == Len(files) = 2 /\ sm.snapCount = 2 /\ steps.commands = 0

\* ---- start-up failure ------------------------------------------------------
\* C20: once the allocation of the ring buffer has failed in begin(), no
\* sample is read, evaluated or pushed and no command line is read.
C20_HaltsForGood ==
    [][/\ (pc' # "constructed" /\ ~cb'.allocated) =>
             /\ pc' = "halted"
             /\ ev' = NoEval /\ cmd' = NoLine
             /\ trace' = NoTrace /\ snapLog' = NoSnap
             /\ cb'.size = 0
       /\ (pc # "constructed" /\ ~cb.allocated) =>
             /\ UNCHANGED <<adc, cb, sm, ev, trace, snapLog, files, cmd, out>>
             /\ rx # NoLine => rx' = rx]_vars

\* halted, the blink loop turning and a command line left unread
C20_Witness ==
    /\ pc = "halted" /\ ~cb.allocated
    /\ rx = "snap"
    /\ clock = (BEGIN_DELAY_MS + BLINK_DELAY_MS) * 1000

\* ---- acquisition does not depend on the card -------------------------------
\* what an instance has acquired: its clock, the detector and timing state
\* (the flag _sdAvailable left out), the ring buffer, and what the last pass
\* evaluated and printed on the live stream
Acquired(c, a, b, e) ==
    [clock |-> c, adc |-> [a EXCEPT !.sdAvailable = FALSE], cb |-> b, ev |-> e]

\* C18: two runs given the same clock readings, ADC counts and command lines
\* have, after every step, the same detector state, the same ring buffer
\* (hence the same records pushed) and the same line on the live stream,
\* whatever the SD card of each did at begin() and at each snap.
C18_AcquisitionIgnoresCard ==
    twin.present =>
        Acquired(clock, adc, cb, ev) = Acquired(twin.clock, twin.adc, twin.cb, twin.ev)

\* one instance has its card and has saved a snap, the other has no card and
\* has saved none; the last pass recorded a hit and streamed it
C18_Witness ==
    /\ twin.present
    /\ adc.sdAvailable /\ ~twin.adc.sdAvailable
    /\ Len(files) = 1 /\ twin.files = << >>
    /\ twin.snap.commanded /\ twin.snap.error = "sd"
    /\ ev.accepted /\ ev.hit = 1 /\ ev.line.printed
    /\ cb.size >= 2

\* ---- the order of an extraction ---------------------------------------------
\* RingPush numbers the records it pushes in cum_counts: 1, 2, 3, ...
InPushOrder(seq) ==
    \A i \in 1..(Len(seq) - 1) : seq[i].cum_counts < seq[i + 1].cum_counts

NonDecreasing(seq) ==
    \A i \in 1..(Len(seq) - 1) : ULeq(seq[i].timestamp, seq[i + 1].timestamp)

\* C21: extractWindow returns its matches in the order they were pushed,
\* wherever the head of the ring is; the timestamps pushed being
\* non-decreasing, those of the result are non-decreasing.
C21_PushOrder ==
    query.called => /\ InPushOrder(out)
                    /\ NonDecreasing(pushed) => NonDecreasing(out)

\* a full ring whose head is not at slot 0, all of it extracted
C21_Witness ==
    /\ query.called
    /\ cb.capacity >= 2 /\ Len(pushed) > cb.capacity /\ cb.head # 0
    /\ Len(out) = cb.capacity

\* ---- the limit of an extraction ---------------------------------------------
\* the retained records that pass the test of the loop of extractWindow,
\* sample.timestamp >= startTimeUs && sample.timestamp <= endTimeUs, oldest
\* first (a store without its array retains none)
WindowMatches ==
    LET windowUs == WindowUs(query.windowSeconds)
        startTimeUs == U32Sub(query.centerTimeUs, windowUs)
        endTimeUs == U32Add(query.centerTimeUs, windowUs)
        Test(sample) == /\ UGeq(sample.timestamp, startTimeUs)
                        /\ ULeq(sample.timestamp, endTimeUs)
    IN  IF cb.allocated THEN SelectSeq(Retained(cb), Test) ELSE << >>

\* C22: extractWindow returns at most maxSamples records: all the matches
\* when they are no more than that, the maxSamples oldest of them, in order,
\* when they are more; nothing when maxSamples is 0.
C22_AtMostMaxOut ==
    query.called =>
        /\ Len(out) <= query.maxSamples
        /\ out = IF Len(WindowMatches) > query.maxSamples
                 THEN SubSeq(WindowMatches, 1, query.maxSamples)
                 ELSE WindowMatches
        /\ query.maxSamples = 0 => out = << >>

\* more matches than maxSamples, none of them dropped for another reason
C22_Witness ==
    /\ query.called
    /\ query.maxSamples = 2
    /\ Len(WindowMatches) = 3
    /\ Len(out) = 2
    /\ Len(pushed) > cb.capacity

\* maxSamples = 0 on a store that holds matches
C22_WitnessZero ==
    query.called /\ query.maxSamples = 0 /\ Len(WindowMatches) >= 1

\* ---- a store without its array ----------------------------------------------
\* this step is a call of push
PushCalled == calls'.push # calls.push

\* C23: on a store whose array was never allocated (begin() not called, or
\* called once and failed) head and size are 0 and there is no slot; on a
\* store without array push changes nothing of the store and extractWindow
\* returns no record.
C23_UnallocatedNoOps ==
    [][/\ (~cb'.allocated /\ calls'.begin <= 1)
            => (cb'.head = 0 /\ cb'.size = 0 /\ cb'.buffer = << >>)
       /\ (~cb.allocated /\ PushCalled) => cb' = cb
       /\ (~cb.allocated /\ query'.called) => (out' = << >> /\ cb' = cb)]_vars

\* begin() has failed, two pushes were made, then a query that lets records in
C23_Witness ==
    /\ ~cb.allocated
    /\ calls.begin = 1 /\ calls.push >= 2
    /\ query.called /\ query.maxSamples > 0 /\ query.windowSeconds = 0
    /\ out = << >>

\* ---- clear() ------------------------------------------------------------------
\* a store of capacity n freshly begun, after the pushes of seq
RECURSIVE PushAll(_, _, _)
PushAll(b, seq, i) ==
    IF i > Len(seq) THEN b ELSE PushAll(push(b, seq[i]), seq, i + 1)

FreshAfter(n, seq) == PushAll(begin(CircularBuffer(n, 1), TRUE), seq, 1)

\* the store answers as a freshly begun store of its capacity does after the
\* pushes made since the last clear() or begin()
SameAsFresh ==
    LET f == FreshAfter(cb.capacity, pushed)
    IN  /\ size(cb) = size(f)
        /\ isFull(cb) = isFull(f)
        /\ Retained(cb) = Retained(f)
        /\ query.called =>
              out = extractWindow(f, query.centerTimeUs, query.windowSeconds,
                                  TRUE, query.maxSamples)

\* this step is a call of clear()
ClearCalled == calls'.clear # calls.clear

\* C24: clear() leaves size() = 0, the capacity and the array as they were,
\* and from then on every push and every extractWindow gives what it gives on
\* a freshly begun store of the same capacity.
C24_ClearIsFresh ==
    /\ [][ClearCalled => /\ size(cb') = 0
                          /\ capacity(cb') = capacity(cb)
                          /\ cb'.buffer = cb.buffer
                          /\ cb'.allocated = cb.allocated]_vars
    /\ [](cb.allocated => SameAsFresh)

\* after a clear() one record was pushed and extracted, while an older
\* record of the same timestamp, pushed before the clear(), still lies in a
\* slot of the array
C24_Witness ==
    /\ cb.allocated /\ calls.clear = 1
    /\ cb.capacity >= 2 /\ cb.size = 1
    /\ cb.buffer[1] # Uninit
    /\ query.called /\ query.windowSeconds = 0 /\ query.maxSamples > 1
    /\ cb.buffer[1].timestamp = query.centerTimeUs
    /\ Len(out) = 1 /\ out[1] = cb.buffer[0]

\* ---- nothing but a push or clear() removes a record --------------------------
\* the records retained in b are retained in b2, in the same order, except
\* the oldest when `evicted`
KeptIn(b, b2, evicted) ==
    LET shift == IF evicted THEN 1 ELSE 0
    IN  /\ b2.size >= b.size - shift
        /\ \A i \in (1 + shift)..b.size :
              Retained(b2)[i - shift] = Retained(b)[i]

\* C25: once begin() has run, the capacity never changes and the ring buffer
\* changes only in a pass of loop() that takes a sample, and then by exactly
\* one push: whatever line was read (on, off, snap with any outcome of
\* captureSnap and its extractWindow, an unknown word, the empty line), head,
\* size and the retained records are as the command found them, and a record
\* leaves the ring only as the oldest of a full ring at a push.
C25_NoImplicitClear ==
    [][pc # "constructed" =>
         /\ cb'.capacity = cb.capacity /\ cb'.allocated = cb.allocated
         /\ cb' # cb => (PassTaken /\ ev'.accepted /\ OnePush(cb, cb'))
         /\ (PassTaken /\ ~ev'.accepted) => cb' = cb
         /\ cb'.size >= cb.size
         /\ KeptIn(cb, cb', cb' # cb /\ isFull(cb))]_vars

\* a snap was saved and the pass that saved it took a sample; every record
\* written to the file is still in the ring, and so is the new one
C25_Witness ==
    /\ cmd = "snap" /\ snapLog.ok /\ Len(out) >= 1
    /\ ev.accepted /\ ev.hit = 1
    /\ cb.size = Len(out) + 1
    /\ \A i \in 1..Len(out) : Retained(cb)[i] = out[i]

\* ---- who writes the detector state -------------------------------------------
DetectorState(a) ==
    [armed |-> a.armed, last_hit_us |-> a.last_hit_us, cum_counts |-> a.cum_counts]

\* C26: _armed, _last_hit_us and _cum_counts change only in the detection
\* block: the line read by a pass of loop() leaves them as they were, so the
\* block starts from the values the pass found, and a pass that takes no
\* sample ends with them.
C26_DetectorFrame ==
    [][/\ PassTaken =>
            IF ev'.accepted
            THEN [armed |-> ev'.armed, last_hit_us |-> ev'.last_hit_us,
                  cum_counts |-> ev'.cum_counts] = DetectorState(adc)
            ELSE DetectorState(adc') = DetectorState(adc)
       /\ (pc # "constructed" /\ ~PassTaken) =>
            DetectorState(adc') = DetectorState(adc)]_vars

\* the same for every line but `on`
C26_DetectorFrameButOn ==
    [][/\ (PassTaken /\ rx # "on") =>
            IF ev'.accepted
            THEN [armed |-> ev'.armed, last_hit_us |-> ev'.last_hit_us,
                  cum_counts |-> ev'.cum_counts] = DetectorState(adc)
            ELSE DetectorState(adc') = DetectorState(adc)
       /\ (pc # "constructed" /\ ~PassTaken) =>
            DetectorState(adc') = DetectorState(adc)]_vars

C28_Serialized ==
    [][/\ cell' # cell => UNCHANGED <<cb, adc, sm, out, query, snapLog, pc>>
       /\ cb' # cb => /\ pc = "sample" /\ pc' = "running"
                      /\ OnePush(cb, cb')
       /\ adc' # adc => pc = "sample"
       /\ pc = "extract" => cb' = cb /\ adc' = adc
       /\ (pc = "extract" /\ pc' = "sample") =>
              out = extractWindow(cb, query.centerTimeUs, query.windowSeconds,
                                  TRUE, query.maxSamples)]_vars

\* the loop is inside extractWindow with one of two retained records read,
\* and the reader thread has stored a voltage since the last sample
C28_Witness ==
    /\ pc = "extract"
    /\ cb.size = 2
    /\ query.i = 1
    /\ Len(out) = 1
    /\ ev.accepted
    /\ ev.hit = 1
    /\ cell = 90000
    /\ ev.v = Volts(analogRead(50000))

\* the results a snap command can end with
SnapResults == {"none", "sd", "empty", "alloc", "nosamples", "open"}

\* the sample that was next when the snap was read falls due within the
\* observed time
DueInTime ==
    /\ snapLog.commanded
    /\ I32(U32Sub(snapLog.nextSampleAtQuery, trace.firstNext)) <= LiveHorizon

\* the pass took a sample, not before the snap returned, and pushed it
PushedSinceSnap ==
    /\ snapLog.commanded
    /\ ev.accepted
    /\ I32(U32Sub(ev.now_us, snapLog.queryAt)) >= 0
    /\ cb.size > 0
    /\ Newest(cb).timestamp = ev.now_us

\* ------------------------------------------------------------------------
\* C29.  A pass of loop() that read snap ends with the command completed and
\* its result known, success or one of the failures, and with the loop still
\* running; and whatever the result, a sample is taken and pushed into the
\* ring buffer afterwards, in that pass or in a later one, once it is due.
\* ------------------------------------------------------------------------
C29_SnapNeverStopsTheLoop ==
    /\ [](cmd = "snap" => /\ snapLog.commanded
                          /\ snapLog.error \in SnapResults
                          /\ snapLog.ok <=> snapLog.error = "none"
                          /\ pc \in {"running", "inLoop"})
    /\ ((cmd = "snap" /\ DueInTime) ~> PushedSinceSnap)

\* a snap has failed and a later pass has taken and pushed a sample
C29_Witness ==
    /\ snapLog.commanded
    /\ ~snapLog.ok
    /\ cmd = NoLine
    /\ PushedSinceSnap
    /\ I32(U32Sub(ev.now_us, snapLog.queryAt)) > 0

\* the commands a build knows
Recognised(tgt) == IF tgt = "teensy" THEN {"on", "off", "snap"} ELSE {"snap"}

\* the line is the keyword in any mix of cases, with nothing but white space
\* before and after it
IsKeyword(line, keyword) ==
    \E first \in 1..(Len(line) + 1) :
        /\ first + Len(keyword) - 1 <= Len(line)
        /\ \A i \in 1..Len(line) :
              IF i >= first /\ i < first + Len(keyword)
              THEN \E k \in 1..Len(LowerCase) :
                      /\ LowerCase[k] = keyword[i - first + 1]
                      /\ line[i] \in {LowerCase[k], UpperCase[k]}
              ELSE line[i] \in WhiteSpace

\* ------------------------------------------------------------------------
\* C30.  A line is taken for a keyword exactly when it is the keyword up to
\* the case of its letters and to white space around it, and for the empty
\* line exactly when it holds white space only.  A pass of loop() that reads
\* a line its build does not know prints "Unknown command" and no more if
\* the line is not empty, and prints nothing if it is; either way
\* processCommand returns the objects as it found them, so the collecting
\* flag, the snap counter and the snap results are those of before, the
\* detection block starts from the detector state the pass found, and a
\* pass that takes no sample leaves detector and ring buffer as they were.
\* ------------------------------------------------------------------------
C30_UnknownAndEmptyLines ==
    [][/\ (rx = NoLine /\ rx' # NoLine) =>
             /\ rx' = "snap" <=> IsKeyword(fed', <<"s", "n", "a", "p">>)
             /\ rx' = "on" <=> IsKeyword(fed', <<"o", "n">>)
             /\ rx' = "off" <=> IsKeyword(fed', <<"o", "f", "f">>)
             /\ rx' = "" <=> \A i \in 1..Len(fed') : fed'[i] \in WhiteSpace
       /\ (PassTaken /\ rx # NoLine /\ rx \notin Recognised(target)) =>
             /\ \E c \in {processCommand(target, adc, sm, cb, rx, clock, TRUE, TRUE)} :
                   /\ c.notice = IF rx = "" THEN "none" ELSE "Unknown command"
                   /\ c.adc = adc /\ c.cb = cb /\ c.sm = sm
                   /\ c.snap = NoSnap /\ c.clock = clock
             /\ adc'.isCollecting = adc.isCollecting
             /\ sm' = sm /\ snapLog' = snapLog /\ files' = files
             /\ clock' = clock
             /\ ~ev'.accepted => adc' = adc /\ cb' = cb
             /\ ev'.accepted => /\ ev'.armed = adc.armed
                                /\ ev'.last_hit_us = adc.last_hit_us
                                /\ ev'.cum_counts = adc.cum_counts
                                /\ (cb' = cb \/ OnePush(cb, cb'))]_vars

\* the Linux build has read the line ON, which it does not know, in a pass
\* that took a sample and recorded a hit
C30_Witness ==
    /\ target = "native"
    /\ fed = <<"O", "N">>
    /\ cmd = "on"
    /\ ev.accepted
    /\ ev.hit = 1
    /\ cb.size > 0

\* the Teensy build has read a line of white space in a pass that took no
\* sample
C30_WitnessBlank ==
    /\ target = "teensy"
    /\ fed = <<"\t", " ">>
    /\ cmd = ""
    /\ ~ev.accepted
    /\ cb.size > 0

\* ---- the hits-only ring buffer ----------------------------------------------
\* hits among the calls of sampleAndStream so far
HitsFed == Cardinality({i \in 1..Len(fed) : fed[i].accepted /\ fed[i].hit = 1})

\* ------------------------------------------------------------------------
\* C31.  In the hits-only build a call of sampleAndStream that takes a sample
\* pushes one record, stamped with the time of the call, exactly when the
\* detector emitted hit = 1, and a call that takes none pushes nothing.  So
\* the pushes made since begin() are as many as the hits counted, and the
\* ring buffer holds the smaller of its capacity and that count.
\* ------------------------------------------------------------------------
C31_PushIffHit ==
    /\ [][Len(fed') > Len(fed) =>
            IF ev'.accepted /\ ev'.hit = 1
            THEN /\ OnePush(cb, cb')
                 /\ Newest(cb').timestamp = clock'
                 /\ adc'.cum_counts = adc.cum_counts + 1
            ELSE cb' = cb /\ adc'.cum_counts = adc.cum_counts]_vars
    /\ [](/\ calls.push = HitsFed
          /\ adc.cum_counts = HitsFed
          /\ size(cb) = IF HitsFed < cb.capacity THEN HitsFed ELSE cb.capacity)

\* three hits counted and pushed with samples that were no hit in between,
\* the ring buffer of two slots full
C31_Witness ==
    /\ adc.cum_counts = 3
    /\ calls.push = 3
    /\ size(cb) = SparseCapacity
    /\ Len(fed) = 5
    /\ fed[2].accepted /\ fed[2].hit = 0
    /\ ev.accepted /\ ev.hit = 1

\* ---- the refractory test at the wrap of micros() -----------------------------
\* the samples of the history that were hits
HitsAt == {i \in 1..Len(fed) : fed[i].hit = 1}

\* time elapsed at sample i since the last hit before it, counted without
\* wrap.  Before the first hit _last_hit_us is the 0 the constructor wrote,
\* which stands for the counter value 0: the time elapsed since then modulo
\* 2^32 is the counter itself, more than 71 minutes (-1 here) until the
\* counter wraps and the time since the wrap afterwards.
SinceLastHit(i) ==
    LET earlier == {j \in HitsAt : j < i}
        counter == WrapStart + fed[i].since
    IN  IF earlier = {}
        THEN IF counter < 0 THEN -1 ELSE counter
        ELSE fed[i].since - fed[CHOOSE j \in earlier : \A k \in earlier : k <= j].since

\* ------------------------------------------------------------------------
\* C32.  Across the wrap of the 32-bit counter the refractory test sees the
\* time that has really passed: a sample inside the voltage window taken
\* while armed is a hit exactly when at least REFRACT_US have elapsed since
\* the last hit, also when that hit was stamped just below 2^32 and now is
\* a small value; and the hit time kept is the wrapped counter value.
\* ------------------------------------------------------------------------
C32_RefractoryAcrossWrap ==
    \A i \in 1..Len(fed) :
       LET v == Volts(fed[i].raw)
           inWindow == v >= LOWER_ENTER_V /\ v <= UPPER_LIMIT_V
       IN  /\ fed[i].hit = 1 <=>
                /\ fed[i].armed
                /\ inWindow
                /\ SinceLastHit(i) = -1 \/ SinceLastHit(i) >= REFRACT_US
           /\ (i = Len(fed) /\ fed[i].hit = 1) => adc.last_hit_us = fed[i].t

\* a hit stamped 2^32 - 200, a sample refused at 0 after 200 us, and a hit
\* taken at 100, after exactly REFRACT_US
C32_Witness ==
    /\ Len(fed) = 5
    /\ fed[1].hit = 1 /\ fed[1].t = -200
    /\ fed[3].t = 0 /\ fed[3].armed /\ fed[3].raw = 620 /\ fed[3].hit = 0
    /\ fed[4].t = 100 /\ fed[4].hit = 1
    /\ SinceLastHit(4) = REFRACT_US

\* ---- the window of extractWindow at the ends of the counter range ------------
\* the retained records within the half width of the centre, by the signed
\* difference of the 32-bit timestamps
NearCentre ==
    LET windowUs == WindowUs(query.windowSeconds)
        Near(r) == LET d == I32(U32Sub(r.timestamp, query.centerTimeUs))
                   IN  d <= windowUs /\ -d <= windowUs
    IN  SelectSeq(Retained(cb), Near)

\* ------------------------------------------------------------------------
\* C33.  extractWindow, given room for every retained record, returns the
\* retained records whose timestamp lies within the half width of the
\* centre by wraparound-safe difference, and no other, also when
\* centerTimeUs - windowUs falls below 0 or centerTimeUs + windowUs exceeds
\* 2^32 - 1.
\* ------------------------------------------------------------------------
C33_WrapSafeWindow ==
    (query.called /\ cb.allocated /\ query.maxSamples >= cb.size) =>
        out = NearCentre

\* ---- the shape of the ring ------------------------------------------------
\* the slot the claim names for logical index i
SlotOf(b, i) == IF b.size < b.capacity THEN i ELSE (b.head + i) % b.capacity

RECURSIVE Picked(_, _, _)
Picked(seq, S, i) ==
    IF i > Len(seq) THEN << >>
    ELSE IF i \in S THEN <<seq[i]>> \o Picked(seq, S, i + 1)
    ELSE Picked(seq, S, i + 1)

\* C35: every record returned by extractWindow is a currently retained
\* record (never an evicted record, a slot not yet written, or a slot left
\* over from before a clear()), appears at most once in the result, and has
\* a timestamp t with startTimeUs <= t <= endTimeUs for the 32-bit bounds the
\* call computed.  The result is the retained records, which are the last
\* size() records pushed since the last begin() or clear(), at some set of
\* distinct logical indices.
C35_OnlyRetainedInBounds ==
    (query.called /\ cb.allocated) =>
        LET windowUs == WindowUs(query.windowSeconds)
            startTimeUs == U32Sub(query.centerTimeUs, windowUs)
            endTimeUs == U32Add(query.centerTimeUs, windowUs)
            kept == LastN(pushed, cb.size)
        IN  /\ \E S \in SUBSET (1..cb.size) : out = Picked(kept, S, 1)
            /\ \A k \in 1..Len(out) :
                 /\ out[k] # Uninit
                 /\ ULeq(startTimeUs, out[k].timestamp)
                 /\ ULeq(out[k].timestamp, endTimeUs)

\* a full ring cleared, one record pushed, and a query whose window holds
\* that record and the two records left in the array from before the clear()
C35_Witness ==
    /\ query.called
    /\ cb.allocated
    /\ cb.capacity = 3
    /\ calls.clear = 1
    /\ calls.push = 4
    /\ cb.size = 1
    /\ cb.buffer[1] # Uninit
    /\ cb.buffer[1].timestamp = cb.buffer[0].timestamp
    /\ query.windowSeconds = 0
    /\ query.maxSamples = 10
    /\ Len(out) = 1

\* a ring that has wrapped and a query that returns some of its records
C35_WitnessWrapped ==
    /\ query.called
    /\ cb.allocated
    /\ cb.capacity = 2
    /\ Len(pushed) = 3
    /\ Len(out) = 1
    /\ out[1] = pushed[3]

\* ---- the sampling rate ----------------------------------------------------
\* time from the start of sampling, _next_sample_us as begin() set it, to t
SinceStart(t) == I32(U32Sub(t, trace.firstNext))

\* C36: whatever the times of the calls, stalls followed by catch-up
\* included, the number of samples taken up to time now never exceeds
\* floor((now - start) / sampleIntervalUs) + 1: the k-th sample taken
\* (k >= 1) is never taken before start + (k - 1) * sampleIntervalUs.
C36_RateBound ==
    pc = "running" =>
        /\ trace.accepted <= SinceStart(clock) \div SAMPLE_US + 1
        /\ (ev.accepted /\ trace.accepted >= 1) =>
               SinceStart(ev.now_us) >= (trace.accepted - 1) * SAMPLE_US

\* catch-up after a stall: the ring buffer of the Teensy build holds two
\* samples taken less than one sample interval apart, and the count of
\* samples is at its bound
C36_Witness ==
    /\ pc = "running"
    /\ target = "teensy"
    /\ ev.accepted
    /\ cb.size = 3
    /\ I32(U32Sub(Retained(cb)[3].timestamp, Retained(cb)[2].timestamp)) < SAMPLE_US
    /\ trace.accepted >= 3
    /\ trace.accepted = SinceStart(clock) \div SAMPLE_US + 1

\* the Linux build after the 2.5 s sleep of a snap: samples taken one after
\* the other, far behind their due times
C36_WitnessNative ==
    /\ pc = "running"
    /\ target = "native"
    /\ snapLog.commanded
    /\ ev.accepted
    /\ trace.accepted >= 3
    /\ SinceStart(ev.now_us) >= SNAP_DELAY_MS * 1000

\* ---- what a snap file holds -----------------------------------------------
\* the retained records inside the window captureSnap asks for, oldest first
InSnapWindow(b, s, triggerTimeUs) ==
    LET windowUs == WindowUs(s.windowSeconds)
        Inside(r) == /\ UGeq(r.timestamp, U32Sub(triggerTimeUs, windowUs))
                     /\ ULeq(r.timestamp, U32Add(triggerTimeUs, windowUs))
    IN  SelectSeq(Retained(b), Inside)

\* C37: a snap file never holds more than maxSamples = 2 * windowSeconds *
\* 10000 records; when more retained records than that fall inside the
\* window, the snap keeps the maxSamples oldest ones and drops the newest
\* ones, and the record count written in the header of the file equals the
\* number of rows written.
C37_SnapBounded ==
    [][(snapLog' # snapLog /\ snapLog'.ok) =>
        LET maxSamples == (2 * sm.windowSeconds * 10000) \div 1000
            inside == InSnapWindow(cb, sm, snapLog'.trigger)
            file == snapLog'.artifact
        IN  /\ Len(file.rows) <= maxSamples
            /\ file.rows = IF Len(inside) > maxSamples
                           THEN SubSeq(inside, 1, maxSamples)
                           ELSE inside
            /\ file.samplesLine = Len(file.rows)]_vars

\* a snap of a 1 ms window with 21 records inside it: 20 rows, the newest
\* record left out
C37_Witness ==
    /\ snapLog.commanded
    /\ snapLog.ok
    /\ sm.windowSeconds = 1
    /\ Len(InSnapWindow(cb, sm, snapLog.trigger)) = 21
    /\ Len(snapLog.artifact.rows) = 20
    /\ snapLog.artifact.samplesLine = 20
    /\ snapLog.artifact.rows[20].timestamp = Newest(cb).timestamp - 200

\* ---- the byte-stream parser -----------------------------------------------
\* the k-th group of sizeof(SEEsRawPacket) bytes that sees_poll took
Chunk(k) == SubSeq(iface.consumed, PacketSize * (k - 1) + 1, PacketSize * k)
Chunks == Len(iface.consumed) \div PacketSize
\* the CRC-16 of the first 16 bytes of c is its crc field
CrcMatches(c) == crc16_ccitt(SubSeq(c, 1, PacketSize - 2)) = Word16(c, PacketSize - 1)

\* C38: for any interleaving of sees_ingest, sees_poll and sees_next_frame,
\* sees_poll reports a packet ready only after sizeof(SEEsRawPacket)
\* consecutive bytes whose CRC-16 matches the packet's crc field; while a
\* packet is ready sees_poll takes no further bytes, so the ready packet is
\* not overwritten before sees_next_frame takes it; a CRC mismatch discards
\* exactly those bytes and restarts accumulation at index 0.
C38_ParserDiscipline ==
    /\ [](/\ iface.pkt_index = Len(iface.consumed) % PacketSize
          /\ SubSeq(iface.pkt_accum, 1, iface.pkt_index)
               = LastN(iface.consumed, iface.pkt_index)
          /\ iface.readies = Cardinality({k \in 1..Chunks : CrcMatches(Chunk(k))})
          /\ iface.packet_ready =>
               /\ Chunks >= 1
               /\ iface.pkt_index = 0
               /\ iface.pkt_accum = Chunk(Chunks)
               /\ CrcMatches(iface.pkt_accum))
    /\ [][/\ (iface.packet_ready /\ iface'.packet_ready) =>
               /\ iface'.tail = iface.tail
               /\ iface'.consumed = iface.consumed
               /\ iface'.pkt_accum = iface.pkt_accum
               /\ iface'.pkt_index = iface.pkt_index
          /\ (iface.packet_ready /\ ~iface'.packet_ready) =>
               /\ iface'.ret = TRUE
               /\ iface'.frame.payload = iface.pkt_accum
          /\ (iface'.consumed # iface.consumed) => iface'.ret = iface'.packet_ready
         ]_vars

\* a packet with a wrong CRC was taken and dropped, and the packet after it
\* is ready
C38_Witness ==
    /\ iface.packet_ready
    /\ iface.ret = TRUE
    /\ Chunks = 2
    /\ ~CrcMatches(Chunk(1))
    /\ iface.readies = 1
    /\ iface.emitted = << >>

\* a packet is ready and the whole next packet waits in the ring, whose
\* indices have gone round
C38_WitnessWaiting ==
    /\ iface.packet_ready
    /\ iface.ret = TRUE
    /\ Chunks = 1
    /\ iface.tail = 0
    /\ iface.head = PacketSize
    /\ iface.before = 65535

\* the packet that waits for sees_next_frame, if any
Waiting == IF iface.packet_ready THEN 1 ELSE 0

\* C39: sees_next_frame returns false and leaves the output frame and all
\* parser state unchanged when no packet is ready; when a packet is ready it
\* returns true exactly once for that packet, clearing the ready flag, and
\* successive frames carry sequence numbers 0, 1, 2, ... increasing by
\* exactly 1 modulo 2^16.
C39_FramesInSequence ==
    /\ [](/\ Len(iface.emitted) + Waiting = iface.readies
          /\ iface.packet_ready => iface.ret = TRUE
          /\ iface.seq_counter = (iface.before + Len(iface.emitted)) % 65536
          /\ \A k \in 1..Len(iface.emitted) :
               iface.emitted[k].header.seq = (iface.before + k - 1) % 65536)
    /\ [][/\ (~iface.packet_ready /\ NextFrame) =>
               /\ Statics(iface') = Statics(iface)
               /\ iface'.frame = iface.frame
               /\ iface'.ret = FALSE
               /\ iface'.emitted = iface.emitted
          /\ (iface'.frame # iface.frame \/ iface'.seq_counter # iface.seq_counter
                \/ iface'.emitted # iface.emitted) =>
               /\ iface.packet_ready
               /\ ~iface'.packet_ready
               /\ iface'.ret = TRUE
               /\ iface'.emitted = Append(iface.emitted, iface'.frame)
               /\ iface'.frame.header.seq = iface.seq_counter
               /\ iface'.seq_counter = (iface.seq_counter + 1) % 65536
               /\ iface'.frame.payload = iface.pkt_accum
               /\ iface'.frame.header.timestamp = Word32(iface.pkt_accum, 1)
         ]_vars

\* two frames taken, numbered 65535 and 0, and a further call that found no
\* packet
C39_Witness ==
    /\ Len(iface.emitted) = 2
    /\ iface.emitted[1].header.seq = 65535
    /\ iface.emitted[2].header.seq = 0
    /\ iface.emitted[2].header.timestamp = 70000
    /\ iface.seq_counter = 1
    /\ ~iface.packet_ready
    /\ iface.ret = FALSE
    /\ iface.frame = iface.emitted[2]

\* the first two frames after power-up, numbered 0 and 1
C39_WitnessFromZero ==
    /\ iface.before = 0
    /\ Len(iface.emitted) = 2
    /\ iface.emitted[1].header.seq = 0
    /\ iface.emitted[2].header.seq = 1

\* ---- the rolling buffer in RAM --------------------------------------------
\* the samples of SampleBuffer b, oldest first
RamRetained(b) ==
    LET start == IF b.size < TOTAL_SAMPLES THEN 0 ELSE b.head
    IN  [i \in 1..b.size |-> b.buffer[(start + i - 1) % TOTAL_SAMPLES]]

\* how many of the first i samples of seq are hits
HitsAmong(seq, i) == Cardinality({j \in 1..i : seq[j].hit # 0})

\* C40: after any sequence of record and clear calls size() <= TOTAL_SAMPLES
\* and head < TOTAL_SAMPLES; once full each record() overwrites exactly the
\* oldest sample; outputSnap emits exactly the size() retained samples
\* oldest first, the hit counter printed on each row equals the number of
\* hit samples among the rows emitted so far, and outputSnap changes no
\* buffer state.
C40_RamBuffer ==
    /\ [](/\ sbuf.obj.size <= TOTAL_SAMPLES
          /\ sbuf.obj.head < TOTAL_SAMPLES
          /\ sbuf.obj.allocated =>
               /\ sbuf.obj.size = IF Len(sbuf.recorded) < TOTAL_SAMPLES
                                  THEN Len(sbuf.recorded) ELSE TOTAL_SAMPLES
               /\ RamRetained(sbuf.obj) = LastN(sbuf.recorded, sbuf.obj.size))
    /\ [][/\ (sbuf.obj.allocated /\ sbuf.obj.size = TOTAL_SAMPLES
                /\ Len(sbuf'.recorded) > Len(sbuf.recorded)) =>
               /\ \A i \in 0..(TOTAL_SAMPLES - 1) :
                    (sbuf'.obj.buffer[i] # sbuf.obj.buffer[i])
                        => sbuf.obj.buffer[i] = RamRetained(sbuf.obj)[1]
               /\ RamRetained(sbuf'.obj)
                    = Append(Tail(RamRetained(sbuf.obj)),
                             sbuf'.recorded[Len(sbuf'.recorded)])
          /\ (sbuf'.printed # sbuf.printed) =>
               LET kept == RamRetained(sbuf.obj)
                   rows == sbuf'.printed.rows
               IN  /\ sbuf'.obj = sbuf.obj
                   /\ Len(rows) = sbuf.obj.size
                   /\ sbuf'.printed.samples = sbuf.obj.size
                   /\ \A i \in 1..Len(rows) :
                        /\ rows[i].hit = kept[i].hit
                        /\ rows[i].voltage = SnapVolts(kept[i].adc_raw)
                        /\ rows[i].time_us =
                             IF i = 1 THEN 0
                             ELSE rows[i - 1].time_us + kept[i].time_delta
                        /\ rows[i].total_hits = HitsAmong(kept, i)
         ]_vars

\* five samples recorded in three slots, the two oldest of them hits, and
\* outputSnap called: three rows, the last one with a count of one hit
C40_Witness ==
    /\ sbuf.obj.allocated
    /\ Len(sbuf.recorded) = 5
    /\ sbuf.obj.head = 2
    /\ sbuf.obj.totalHits = 3
    /\ sbuf.recorded[1].hit = 1 /\ sbuf.recorded[2].hit = 1
    /\ Len(sbuf.printed.rows) = 3
    /\ sbuf.printed.rows[1].total_hits = 0
    /\ sbuf.printed.rows[3].total_hits = 1
    /\ sbuf.printed.rows[3].hit = 1
    /\ sbuf.printed.rows[2].time_us = 65535
    /\ sbuf.printed.rows[3].time_us = 65635

====
